---- MODULE Spec2Model ----
(***************************************************************************)
(* A model of redis-eventbus: the EventBus (src/src/eventbus.ts), its      *)
(* three EventStream readers (src/src/stream.ts) and the part of a Redis   *)
(* server the two use (streams, consumer groups, pending entries lists).   *)
(***************************************************************************)
EXTENDS Bags, FiniteSets, Integers, Sequences, TLC

\* ------------------------------------------------------------------ bounds
NumInst == 2            \* EventBus instances constructed
MaxRecords == 2         \* records appended to the store (XADD)
MaxEntries == 2         \* entries (live or deleted) a handler Set may hold
MaxOnce == 1            \* once() calls made on one instance

Inst == 1..NumInst

\* ------------------------------------------------------- types.ts: values
Undefined == "undefined"
BROADCAST == "broadcast"
UNICAST == "unicast"
ANYCAST == "anycast"
EventMode == {ANYCAST, BROADCAST, UNICAST}
EventBusRole == {"publisher", "consumer", "both"}

\* obj.k of a JavaScript object: a missing key reads as undefined
Get(obj, k) == IF k \in DOMAIN obj THEN obj[k] ELSE Undefined

\* the condition of `x ? a : b` for a string or undefined x
Truthy(v) == v # Undefined /\ v # ""

\* { ...base, ...over }: the keys of over win
Spread(base, over) ==
  [k \in DOMAIN base \cup DOMAIN over |->
     IF k \in DOMAIN over THEN over[k] ELSE base[k]]

\* ------------------------------------------------------------ the codec
\* A stream field value that is not the output of EJSON.stringify
Corrupt == [json |-> {<<"corrupt", "corrupt">>}, ok |-> FALSE]

\* EJSON.stringify of an object: keys holding undefined are dropped
EJSON_stringify(obj) ==
  [json |-> {<<k, obj[k]>> : k \in {x \in DOMAIN obj : obj[x] # Undefined}},
   ok |-> TRUE]

\* EJSON.parse throws on text that is not JSON
EJSON_parseThrows(value) == ~value.ok

\* EJSON.parse of a text that EJSON.stringify produced
EJSON_parse(value) ==
  [k \in {p[1] : p \in value.json} |->
     (CHOOSE p \in value.json : p[1] = k)[2]]

\* ------------------------------------------------- eventbus.ts constructor
\* crypto.randomUUID() without dashes: a distinct hex string per instance
instanceId(i) == "a" \o ToString(i)

\* an id that no constructed instance owns
UnknownId == "ff"

\* options.name || 'default'
nameOf(name) == IF Truthy(name) THEN name ELSE "default"

\* a constructor that takes the configured streamTTL as it is
streamTTLOf_asConfigured(opts) ==
  IF "streamTTL" \in DOMAIN opts THEN opts.streamTTL ELSE 60 * 60

\* Math.max(options.streamTTL ?? 60 * 60, 5 * 60), in seconds
streamTTLOf(opts) ==
  LET v == IF "streamTTL" \in DOMAIN opts THEN opts.streamTTL ELSE 60 * 60
  IN IF v > 5 * 60 THEN v ELSE 5 * 60

\* options.maxMessageCount ?? 5000
maxMessageCountOf(opts) ==
  IF "maxMessageCount" \in DOMAIN opts THEN opts.maxMessageCount ELSE 5000

keyPrefixOf(name) == "eventbus:" \o name \o ":"

\* the stream key of the reader of mode m on an instance with prefix P, id I
StreamKeyOf(P, I, m) ==
  CASE m = ANYCAST -> P \o "anycast"
    [] m = BROADCAST -> P \o "broadcast"
    [] m = UNICAST -> P \o "unicast:" \o I

\* a constructor that gives the broadcast reader the shared group name
GroupKeyOf_shared(P, I, m) ==
  CASE m = ANYCAST -> P \o "group"
    [] m = BROADCAST -> P \o "group"
    [] m = UNICAST -> P \o I

\* a constructor that gives the anycast reader a group of its own
GroupKeyOf_own(P, I, m) ==
  CASE m = ANYCAST -> P \o I
    [] m = BROADCAST -> P \o I
    [] m = UNICAST -> P \o I

\* the consumer group of the reader of mode m
GroupKeyOf(P, I, m) ==
  CASE m = ANYCAST -> P \o "group"
    [] m = BROADCAST -> P \o I
    [] m = UNICAST -> P \o I

\* a constructor that gives every reader a batch size of 10
batchSize_ten(m) ==
  CASE m = ANYCAST -> 10
    [] m = BROADCAST -> 10
    [] m = UNICAST -> 10

\* COUNT of the XREADGROUP of the reader of mode m
batchSize(m) ==
  CASE m = ANYCAST -> 1
    [] m = BROADCAST -> 1
    [] m = UNICAST -> 10

\* ------------------------------------------ the Redis server (ioredis calls)
\* The store maps each existing key to a stream: its entries, oldest first,
\* its consumer groups (last-delivered id, pending entries list, and for
\* each consumer the seconds since its last read) and the seconds the key
\* has left to live.
NoExpiry == 0 - 1
NoStream == [entries |-> <<>>, groups |-> <<>>, ttl |-> NoExpiry]

KeyExists(store, key) == key \in DOMAIN store

LastId(entries) ==
  IF Len(entries) = 0 THEN 0 ELSE entries[Len(entries)].id

\* XADD key * message value: appends, creating the key when it is missing
XADD(store, key, id, value) ==
  LET old == IF KeyExists(store, key) THEN store[key] ELSE NoStream
      new == [old EXCEPT !.entries = Append(@, [id |-> id, value |-> value])]
  IN [k \in DOMAIN store \cup {key} |-> IF k = key THEN new ELSE store[k]]

\* XGROUP CREATE key group startId MKSTREAM fails with BUSYGROUP when the
\* group exists
XGROUP_CREATE_fails(store, key, group) ==
  KeyExists(store, key) /\ group \in DOMAIN store[key].groups

\* XGROUP CREATE key group startId MKSTREAM, startId "$" or "0"
XGROUP_CREATE(store, key, group, startId) ==
  LET old == IF KeyExists(store, key) THEN store[key] ELSE NoStream
      g == [last |-> IF startId = "$" THEN LastId(old.entries) ELSE 0,
            pel |-> {}, idle |-> <<>>]
      new == [old EXCEPT !.groups =
                [n \in DOMAIN old.groups \cup {group} |->
                   IF n = group THEN g ELSE old.groups[n]]]
  IN [k \in DOMAIN store \cup {key} |-> IF k = key THEN new ELSE store[k]]

\* XREADGROUP ... STREAMS key > fails with NOGROUP when key or group is gone
XREADGROUP_fails(store, key, group) ==
  ~KeyExists(store, key) \/ group \notin DOMAIN store[key].groups

\* the reply of a read that starts at id 0 whatever the group has delivered
XREADGROUP_reply_fromStart(store, key, group, count) ==
  LET new == store[key].entries
  IN IF Len(new) <= count THEN new ELSE SubSeq(new, 1, count)

\* the entries XREADGROUP GROUP group consumer COUNT count STREAMS key >
\* returns: the first count entries after the group's last-delivered id
XREADGROUP_reply(store, key, group, count) ==
  LET new == SelectSeq(store[key].entries,
                       LAMBDA e : e.id > store[key].groups[group].last)
  IN IF Len(new) <= count THEN new ELSE SubSeq(new, 1, count)

\* the store after that XREADGROUP: the consumer exists and has just been
\* seen, the returned entries are pending for it and the group's
\* last-delivered id has moved past them
XREADGROUP(store, key, group, consumer, count) ==
  LET reply == XREADGROUP_reply(store, key, group, count)
  IN [store EXCEPT ![key].groups[group] =
        [last |-> IF Len(reply) = 0 THEN @.last ELSE LastId(reply),
         pel |-> @.pel \cup {<<reply[n].id, consumer>> : n \in 1..Len(reply)},
         idle |-> [c \in DOMAIN @.idle \cup {consumer} |->
                     IF c = consumer THEN 0 ELSE @.idle[c]]]]

\* XACK key group id: removes the entry from the pending entries list
XACK(store, key, group, id) ==
  IF XREADGROUP_fails(store, key, group) THEN store
  ELSE [store EXCEPT ![key].groups[group].pel = {p \in @ : p[1] # id}]

\* XGROUP DELCONSUMER key group consumer: the consumer goes, and with it
\* the entries that were pending for it
XGROUP_DELCONSUMER(store, key, group, consumer) ==
  IF XREADGROUP_fails(store, key, group) THEN store
  ELSE [store EXCEPT ![key].groups[group] =
          [@ EXCEPT !.pel = {p \in @ : p[2] # consumer},
                    !.idle = [c \in DOMAIN @ \ {consumer} |-> @[c]]]]

\* XINFO CONSUMERS key group: the consumers of the group, each with its
\* idle time in milliseconds
XINFO_CONSUMERS(store, key, group) ==
  [c \in DOMAIN store[key].groups[group].idle |->
     store[key].groups[group].idle[c] * 1000]

\* XINFO GROUPS key fails when the key is gone
XINFO_GROUPS_fails(store, key) == ~KeyExists(store, key)

\* XINFO GROUPS key: the names of the consumer groups of the stream
XINFO_GROUPS(store, key) == DOMAIN store[key].groups

\* XGROUP DESTROY key group: the group goes, with its pending entries
XGROUP_DESTROY(store, key, group) ==
  IF XREADGROUP_fails(store, key, group) THEN store
  ELSE [store EXCEPT ![key].groups =
          [n \in DOMAIN @ \ {group} |-> @[n]]]

\* XTRIM key MAXLEN count: the newest count entries stay
XTRIM(store, key, count) ==
  IF ~KeyExists(store, key) \/ Len(store[key].entries) <= count THEN store
  ELSE [store EXCEPT ![key].entries =
          SubSeq(@, Len(@) - count + 1, Len(@))]

\* EXPIRE key seconds: the key, if it exists, is deleted at once for a
\* time to live that is not positive and lives that many seconds otherwise
EXPIRE(store, key, seconds) ==
  IF ~KeyExists(store, key) THEN store
  ELSE IF seconds <= 0 THEN [k \in DOMAIN store \ {key} |-> store[k]]
  ELSE [store EXCEPT ![key].ttl = seconds]

\* idle times are kept up to a ceiling that lies above every threshold
\* they are compared with, in seconds and in milliseconds
IdleCeiling == 60 * 60 + 1

\* the store after d more seconds: the keys whose time to live has
\* elapsed are gone, consumers have been idle for d seconds more
Elapse(store, d) ==
  [k \in {x \in DOMAIN store : store[x].ttl = NoExpiry \/ store[x].ttl > d} |->
     [store[k] EXCEPT
        !.ttl = IF @ = NoExpiry THEN @ ELSE @ - d,
        !.groups = [g \in DOMAIN @ |->
                      [@[g] EXCEPT !.idle =
                         [c \in DOMAIN @ |->
                            IF @[c] + d > IdleCeiling THEN IdleCeiling
                            ELSE @[c] + d]]]]]

\* the pending (read, unacknowledged) ids of a consumer of a group
Pending(store, key, group, consumer) ==
  IF XREADGROUP_fails(store, key, group) THEN {}
  ELSE {p[1] : p \in {q \in store[key].groups[group].pel : q[2] = consumer}}

\* ---------------------------------------------------------------- state
VARIABLES
  redis,       \* the store: key -> stream
  nextId,      \* the id the store assigns to the next appended entry
  options,     \* EventBus.options of each instance (name, onlyNew, role,
               \* streamTTL, maxMessageCount)
  bus,         \* lifecycle of each instance: "new", "init", "ready", then
               \* "closing", "stopping", "closed" or "failed"; "crashed"
  handlers,    \* EventBus.handlers: topic -> Set (insertion-ordered list)
  stream,      \* the EventStream of each instance and mode: its loop
  wrapped,     \* number of wrappedHandler closures once() has created
  published,   \* history: record id -> who emitted it, where, with what
  dispatched,  \* history: bag of <<instance, mode, id>> handed to handleMessage
  invoked,     \* history: bag of <<instance, id, handler>> handler calls
  acked,       \* history: bag of <<instance, mode, id>> XACK calls
  maint        \* the maintenance worker of each instance: its interval
               \* timer, the run of maintainOnce in progress, the delayed
               \* existence checks it has scheduled

vars == <<redis, nextId, options, bus, handlers, stream, wrapped,
          published, dispatched, invoked, acked, maint>>

keyPrefix(i) == keyPrefixOf(options[i].name)
getStreamKey(i, m) == StreamKeyOf(keyPrefix(i), instanceId(i), m)
getGroupKey(i, m) == GroupKeyOf(keyPrefix(i), instanceId(i), m)

\* ------------------------------------- the maintenance worker: its state
\* the period of setInterval, the delay of the second existence check and
\* the time to live EventStream.init gives a stream, in seconds
Period == 30
ProbeDelay == 2
InitialTTL == 60

\* maintenanceTimer is not set, or has been cleared
NoTimer == 0 - 1

\* Object.values(this.streams): the readers in the order of the literal
Streams == <<ANYCAST, BROADCAST, UNICAST>>

\* The worker of an instance. timer: seconds until the interval fires.
\* pc: the command of maintainOnce that is in flight on the control
\* connection ("idle": no run in progress); at: the stream the run is
\* working on; del: the consumers XINFO CONSUMERS reported as idle; cut:
\* the command in flight was sent after quit(); rejected: a promise of the
\* worker has rejected with nothing to catch it; probes: the existence
\* checks under way, one per group, each a command in flight or the
\* timeout before the second check.
NoMaintenance ==
  [timer |-> NoTimer, pc |-> "idle", at |-> ANYCAST, del |-> {},
   cut |-> FALSE, rejected |-> FALSE, probes |-> {}]

\* the worker between two runs of maintainOnce
Waiting == [NoMaintenance EXCEPT !.timer = Period]

\* ------------------------------------------- the application's callbacks
\* Topics the application uses, and the functions it registers as handlers.
Topics == {"e", "f"}
HandlerFns == {"h1", "h2", "hx"}

\* hx throws (or returns a promise that rejects); h1 and h2 return normally
Throws(fn) == fn = "hx"

\* A member of a handler Set: the function fn itself (wrapper = 0), or the
\* wrappedHandler closure that the wrapper-th call of once made around fn.
Handler(fn, wrapper) == [fn |-> fn, wrapper |-> wrapper]

\* the slot a deleted member leaves in the Set's entry list; an iterator
\* of the Set skips it
Empty == Handler("", 0)

\* --------------------------- Map<string, Set<EventHandler>> (ECMAScript)
\* A Set is its entry list in insertion order, deleted entries emptied.
SetHas(set, h) == \E n \in 1..Len(set) : set[n] = h
\* an add that appends without looking for the value
SetAdd_append(set, h) == Append(set, h)

SetAdd(set, h) == IF SetHas(set, h) THEN set ELSE Append(set, h)
SetDelete(set, h) == [n \in 1..Len(set) |-> IF set[n] = h THEN Empty ELSE set[n]]
SetSize(set) == Cardinality({n \in 1..Len(set) : set[n] # Empty})
SetMembers(set) == {set[n] : n \in 1..Len(set)} \ {Empty}

\* Set iterator: the index of the first live entry after pos, 0 when done
SetNext(set, pos) ==
  LET rest == {n \in 1..Len(set) : n > pos /\ set[n] # Empty}
  IN IF rest = {} THEN 0 ELSE CHOOSE n \in rest : \A k \in rest : n <= k

MapDelete(map, key) == [k \in DOMAIN map \ {key} |-> map[k]]
MapSet(map, key, val) ==
  [k \in DOMAIN map \cup {key} |-> IF k = key THEN val ELSE map[k]]

\* ----------------------------------------------- EventBus.on / off / once
\* the handler table after on(type, h)
on_table(table, type, h) ==
  LET set == IF type \in DOMAIN table THEN table[type] ELSE <<>>
  IN MapSet(table, type, SetAdd(set, h))

\* the handler table after off(type, h): an emptied Set leaves the Map
off_table(table, type, h) ==
  IF type \notin DOMAIN table THEN table
  ELSE LET set == SetDelete(table[type], h)
       IN IF SetSize(set) = 0 THEN MapDelete(table, type)
          ELSE MapSet(table, type, set)

\* the topic of the envelope an EventStream is dispatching
DispatchTopic(st) == Get(EJSON_parse(st.batch[1].value), "event")

\* off(type, h) inside instance i: the for...of loops of handleMessage that
\* are suspended on the Set of type keep iterating that Set object; when
\* off removes the Set from the Map they are left with a Set that has no
\* live entry and that no later on() can reach
off_streams(i, type, h) ==
  LET gone == type \in DOMAIN handlers[i]
              /\ type \notin DOMAIN off_table(handlers[i], type, h)
  IN [m \in EventMode |->
        IF gone /\ stream[i][m].pc = "await"
                /\ DispatchTopic(stream[i][m]) = type
        THEN [stream[i][m] EXCEPT !.detached = TRUE]
        ELSE stream[i][m]]

on(i, type, fn) ==
  /\ IF type \notin DOMAIN handlers[i] THEN TRUE
     ELSE \/ SetHas(handlers[i][type], Handler(fn, 0))
          \/ Len(handlers[i][type]) < MaxEntries
  /\ handlers' = [handlers EXCEPT ![i] = on_table(@, type, Handler(fn, 0))]
  /\ UNCHANGED <<redis, nextId, options, bus, stream, wrapped,
                 published, dispatched, invoked, acked>>
  /\ UNCHANGED maint

off(i, type, fn) ==
  /\ handlers' = [handlers EXCEPT ![i] = off_table(@, type, Handler(fn, 0))]
  /\ stream' = [stream EXCEPT ![i] = off_streams(i, type, Handler(fn, 0))]
  /\ UNCHANGED <<redis, nextId, options, bus, wrapped,
                 published, dispatched, invoked, acked>>
  /\ UNCHANGED maint

\* once(type, fn): a new wrappedHandler closure is registered with on
once(i, type, fn) ==
  /\ wrapped[i] < MaxOnce
  /\ IF type \notin DOMAIN handlers[i] THEN TRUE
     ELSE Len(handlers[i][type]) < MaxEntries
  /\ wrapped' = [wrapped EXCEPT ![i] = @ + 1]
  /\ handlers' = [handlers EXCEPT ![i] =
                    on_table(@, type, Handler(fn, wrapped[i] + 1))]
  /\ UNCHANGED <<redis, nextId, options, bus, stream,
                 published, dispatched, invoked, acked>>
  /\ UNCHANGED maint

\* --------------------------------------------------------- EventBus.init
\* Date.now() at the time of an emit
DateNow == "now"

\* an EventStream before its init: loop = false, nothing read
NewStream == [pc |-> "off", loop |-> FALSE, batch |-> <<>>, pos |-> 0,
              cur |-> Empty, detached |-> FALSE]

\* init(): the control connection is connected, then the init of the three
\* streams run concurrently (Promise.all)
init(i) ==
  /\ bus[i] = "new"
  /\ bus' = [bus EXCEPT ![i] = "init"]
  /\ UNCHANGED <<redis, nextId, options, handlers, stream, wrapped,
                 published, dispatched, invoked, acked>>
  /\ UNCHANGED maint

\* an init that creates every group at the start of the stream
EventStream_xgroup_fromStart(store, key, group, onlyNew) ==
  IF XGROUP_CREATE_fails(store, key, group) THEN store
  ELSE XGROUP_CREATE(store, key, group, "0")

\* an init that creates every group at the end of the stream
EventStream_xgroup_fromEnd(store, key, group, onlyNew) ==
  IF XGROUP_CREATE_fails(store, key, group) THEN store
  ELSE XGROUP_CREATE(store, key, group, "$")

\* xgroup('CREATE', stream, group, startId, 'MKSTREAM').catch(() => 0) with
\* startId = onlyNew ? '$' : '0'
EventStream_xgroup(store, key, group, onlyNew) ==
  IF XGROUP_CREATE_fails(store, key, group) THEN store
  ELSE XGROUP_CREATE(store, key, group, IF onlyNew THEN "$" ELSE "0")

\* EventStream.init(): the group is created, then EXPIRE stream 60 and, by
\* startLoop(), which sets loop = true, the first XREADGROUP are sent one
\* behind the other on the reader's connection
EventStream_init(i, m) ==
  /\ bus[i] = "init"
  /\ stream[i][m].pc = "off"
  /\ LET key == getStreamKey(i, m)
         group == getGroupKey(i, m)
         created == EXPIRE(EventStream_xgroup(redis, key, group,
                                              options[i].onlyNew),
                           key, InitialTTL)
         reply == XREADGROUP_reply(created, key, group, batchSize(m))
     IN /\ redis' = XREADGROUP(created, key, group, instanceId(i), batchSize(m))
        /\ stream' = [stream EXCEPT ![i][m] =
                        IF Len(reply) = 0
                        THEN [@ EXCEPT !.pc = "read", !.loop = TRUE]
                        ELSE [@ EXCEPT !.pc = "batch", !.loop = TRUE,
                                       !.batch = reply]]
  /\ UNCHANGED <<nextId, options, bus, handlers, wrapped,
                 published, dispatched, invoked, acked>>
  /\ UNCHANGED maint

\* init() resolves once the three EventStream.init() have resolved:
\* startMaintenanceTimer() calls maintainOnce(), which sends its first
\* XTRIM, and sets the interval
init_resolve(i) ==
  /\ bus[i] = "init"
  /\ \A m \in EventMode : stream[i][m].pc # "off"
  /\ bus' = [bus EXCEPT ![i] = "ready"]
  /\ UNCHANGED <<redis, nextId, options, handlers, stream, wrapped,
                 published, dispatched, invoked, acked>>
  /\ maint' = [maint EXCEPT ![i] = [Waiting EXCEPT !.pc = "xtrim"]]

\* --------------------------------------------------------- EventBus.emit
\* an emit that lets a mode the caller passed win over the target
emit_mode_asPassed(message) ==
  IF Get(message, "mode") # Undefined THEN message.mode
  ELSE IF Truthy(Get(message, "target")) THEN UNICAST ELSE BROADCAST

\* the mode emit computes from its message argument
emit_mode(message) ==
  IF Truthy(Get(message, "target")) THEN UNICAST
  ELSE IF Get(message, "mode") = Undefined THEN BROADCAST
       ELSE message.mode

\* an envelope built with the spread last: { mode, event, timestamp, source,
\* data: message.data, ...message }
emit_payload_spreadLast(I, event, message) ==
  Spread([mode |-> emit_mode(message), event |-> event,
          timestamp |-> DateNow, source |-> I,
          data |-> Get(message, "data")],
         message)

\* the envelope emit builds: { ...message, mode, event, timestamp, source,
\* data: message.data }
emit_payload(I, event, message) ==
  Spread(message,
         [mode |-> emit_mode(message), event |-> event,
          timestamp |-> DateNow, source |-> I,
          data |-> Get(message, "data")])

\* an emit without the special case for unicast: the key of the emitter's
\* own stream of that mode
emit_streamKey_own(P, I, message) ==
  StreamKeyOf(P, I, emit_mode(message))

\* the stream key emit appends to
emit_streamKey(P, I, message) ==
  IF emit_mode(message) = UNICAST
  THEN P \o "unicast:" \o Get(message, "target")
  ELSE StreamKeyOf(P, I, emit_mode(message))

\* the handlers instance j holds for a topic, if its init has resolved
Subscribed(j, type) ==
  IF bus[j] = "ready" /\ type \in DOMAIN handlers[j]
  THEN SetMembers(handlers[j][type]) ELSE {}

\* the instances whose broadcast consumer group exists in the store
Joined ==
  {j \in Inst : ~XREADGROUP_fails(redis, getStreamKey(j, BROADCAST),
                                  getGroupKey(j, BROADCAST))}

\* the instances whose close() has resolved
Closed == {j \in Inst : bus[j] = "closed"}

\* emit(event, message) on an instance whose control connection is up:
\* after quit() the client rejects the XADD ("Connection is closed")
emit(i, event, message) ==
  /\ bus[i] \in {"init", "ready"}
  /\ nextId <= MaxRecords
  /\ LET key == emit_streamKey(keyPrefix(i), instanceId(i), message)
         value == EJSON_stringify(emit_payload(instanceId(i), event, message))
     IN /\ redis' = XADD(redis, key, nextId, value)
        /\ published' = MapSet(published, nextId,
                          [by |-> i, key |-> key, event |-> event,
                           message |-> message,
                           subs |-> [j \in Inst |-> Subscribed(j, event)],
                           joined |-> Joined, closed |-> Closed])
  /\ nextId' = nextId + 1
  /\ UNCHANGED <<options, bus, handlers, stream, wrapped,
                 dispatched, invoked, acked>>
  /\ UNCHANGED maint

\* Another client of the same Redis server appends a field value that is
\* not an encoded envelope to an existing stream of the bus.
ForeignXADD(key) ==
  /\ KeyExists(redis, key)
  /\ nextId <= MaxRecords
  /\ redis' = XADD(redis, key, nextId, Corrupt)
  /\ published' = MapSet(published, nextId,
                    [by |-> 0, key |-> key, event |-> Undefined,
                     message |-> <<>>, subs |-> [j \in Inst |-> {}],
                     joined |-> Joined, closed |-> Closed])
  /\ nextId' = nextId + 1
  /\ UNCHANGED <<options, bus, handlers, stream, wrapped,
                 dispatched, invoked, acked>>
  /\ UNCHANGED maint

\* ------------------------------------------------- EventStream.startLoop
One(x) == SetToBag({x})

\* a reader that issues its read only while no reader of the instance is
\* awaiting a handler, as one loop serving the three streams would
startLoop_xreadgroup_oneLoop(i, m) ==
  /\ stream[i][m].pc = "read"
  /\ \A x \in EventMode : stream[i][x].pc # "await"
  /\ LET key == getStreamKey(i, m)
         group == getGroupKey(i, m)
     IN IF XREADGROUP_fails(redis, key, group)
        THEN /\ stream' = [stream EXCEPT ![i][m].pc = "dead"]
             /\ UNCHANGED redis
        ELSE /\ redis' = XREADGROUP(redis, key, group, instanceId(i),
                                    batchSize(m))
             /\ stream' = [stream EXCEPT ![i][m] =
                  LET reply == XREADGROUP_reply(redis, key, group, batchSize(m))
                  IN IF Len(reply) = 0
                     THEN [@ EXCEPT !.pc = IF stream[i][m].loop THEN "read" ELSE "done"]
                     ELSE [@ EXCEPT !.pc = "batch", !.batch = reply]]
  /\ UNCHANGED <<nextId, options, bus, handlers, wrapped,
                 published, dispatched, invoked, acked>>
  /\ UNCHANGED maint

\* while (this.loop) { messages = await xreadgroup(... COUNT batchSize
\* BLOCK 1000 STREAMS stream '>') : a reply of null (nothing new within the
\* block time) leads to the next test of this.loop
startLoop_xreadgroup(i, m) ==
  /\ stream[i][m].pc = "read"
  /\ LET key == getStreamKey(i, m)
         group == getGroupKey(i, m)
     IN IF XREADGROUP_fails(redis, key, group)
        THEN \* NOGROUP: the promise of startLoop rejects, the loop is over
             /\ stream' = [stream EXCEPT ![i][m].pc = "dead"]
             /\ UNCHANGED redis
        ELSE /\ redis' = XREADGROUP(redis, key, group, instanceId(i),
                                    batchSize(m))
             /\ stream' = [stream EXCEPT ![i][m] =
                  LET reply == XREADGROUP_reply(redis, key, group, batchSize(m))
                  IN IF Len(reply) = 0
                     THEN [@ EXCEPT !.pc = IF stream[i][m].loop THEN "read" ELSE "done"]
                     ELSE [@ EXCEPT !.pc = "batch", !.batch = reply]]
  /\ UNCHANGED <<nextId, options, bus, handlers, wrapped,
                 published, dispatched, invoked, acked>>
  /\ UNCHANGED maint

\* for (const message of messages): messages holds one element, the reply
\* for the one stream read, and the body takes message[1][0], the first
\* entry of that reply. EJSON.parse throws inside the try: the error is
\* logged. Otherwise handleMessage runs up to its first await: it looks the
\* topic up and calls the first handler of the Set.
startLoop_dispatch(i, m) ==
  /\ stream[i][m].pc = "batch"
  /\ LET rec == stream[i][m].batch[1]
         topic == DispatchTopic(stream[i][m])
     IN IF EJSON_parseThrows(rec.value)
        THEN /\ stream' = [stream EXCEPT ![i][m].pc = "ack"]
             /\ UNCHANGED <<dispatched, invoked>>
        ELSE /\ dispatched' = dispatched (+) One(<<i, m, rec.id>>)
             /\ IF topic \notin DOMAIN handlers[i]
                THEN /\ stream' = [stream EXCEPT ![i][m].pc = "ack"]
                     /\ UNCHANGED invoked
                ELSE LET first == SetNext(handlers[i][topic], 0)
                         h == handlers[i][topic][first]
                     IN /\ stream' = [stream EXCEPT ![i][m] =
                              [@ EXCEPT !.pc = "await", !.pos = first,
                                        !.cur = h, !.detached = FALSE]]
                        /\ invoked' = invoked (+) One(<<i, rec.id, h>>)
  /\ UNCHANGED <<redis, nextId, options, bus, handlers, wrapped, published, acked>>
  /\ UNCHANGED maint

\* The handler awaited by handleMessage settles. A wrappedHandler of once
\* first runs its finally block, off(type, wrappedHandler). A rejection
\* leaves the for...of loop of handleMessage and is caught and logged by
\* startLoop; otherwise the loop calls the next handler of the Set, if any.
handleMessage_resume(i, m) ==
  /\ stream[i][m].pc = "await"
  /\ LET st == stream[i][m]
         topic == DispatchTopic(st)
         table == IF st.cur.wrapper # 0
                  THEN off_table(handlers[i], topic, st.cur)
                  ELSE handlers[i]
         others == IF st.cur.wrapper # 0
                   THEN off_streams(i, topic, st.cur)
                   ELSE stream[i]
         detached == others[m].detached
         next == IF detached THEN 0 ELSE SetNext(table[topic], st.pos)
         done == [st EXCEPT !.pc = "ack", !.pos = 0, !.cur = Empty,
                            !.detached = FALSE]
     IN /\ handlers' = [handlers EXCEPT ![i] = table]
        /\ IF Throws(st.cur.fn) \/ next = 0
           THEN /\ stream' = [stream EXCEPT ![i] = [others EXCEPT ![m] = done]]
                /\ UNCHANGED invoked
           ELSE /\ stream' = [stream EXCEPT ![i] =
                     [others EXCEPT ![m] =
                        [st EXCEPT !.pos = next, !.cur = table[topic][next]]]]
                /\ invoked' = invoked (+)
                     One(<<i, st.batch[1].id, table[topic][next]>>)
  /\ UNCHANGED <<redis, nextId, options, bus, wrapped,
                 published, dispatched, acked>>
  /\ UNCHANGED maint

\* await xack(stream, group, messageId), then the next test of this.loop
startLoop_xack(i, m) ==
  /\ stream[i][m].pc = "ack"
  /\ LET id == stream[i][m].batch[1].id
     IN /\ redis' = XACK(redis, getStreamKey(i, m), getGroupKey(i, m), id)
        /\ acked' = acked (+) One(<<i, m, id>>)
  /\ stream' = [stream EXCEPT ![i][m] =
                  [@ EXCEPT !.pc = IF stream[i][m].loop THEN "read" ELSE "done",
                            !.batch = <<>>]]
  /\ UNCHANGED <<nextId, options, bus, handlers, wrapped,
                 published, dispatched, invoked>>
  /\ UNCHANGED maint

\* -------------------------------------------------------- EventBus.close
\* close(): quit() is sent on the control connection; the server closes it
\* after the reply, so that no later command of this instance is executed
close(i) ==
  /\ bus[i] = "ready"
  /\ bus' = [bus EXCEPT ![i] = "closing"]
  /\ UNCHANGED <<redis, nextId, options, handlers, stream, wrapped,
                 published, dispatched, invoked, acked>>
  /\ UNCHANGED maint

\* quit() has resolved, after the replies to the commands that were in
\* flight before it: the timer is cleared and close() of the three streams
\* is called, each of which sets loop = false before its first await
close_streams(i) ==
  /\ bus[i] = "closing"
  /\ maint[i].pc = "idle" \/ maint[i].cut
  /\ \A p \in maint[i].probes : p.stage = "timeout" \/ p.cut
  /\ bus' = [bus EXCEPT ![i] = "stopping"]
  /\ stream' = [stream EXCEPT ![i] =
                  [m \in EventMode |-> [stream[i][m] EXCEPT !.loop = FALSE]]]
  /\ UNCHANGED <<redis, nextId, options, handlers, wrapped,
                 published, dispatched, invoked, acked>>
  /\ maint' = [maint EXCEPT ![i].timer = NoTimer]

\* EventStream.close() after `await this.loopPromise`: the loop has left
\* its while, the reader connection quits. When loopPromise has rejected,
\* the await throws and quit() is not reached.
EventStream_close(i, m) ==
  /\ bus[i] \in {"stopping", "failed"}
  /\ stream[i][m].pc = "done"
  /\ stream' = [stream EXCEPT ![i][m].pc = "closed"]
  /\ UNCHANGED <<redis, nextId, options, bus, handlers, wrapped,
                 published, dispatched, invoked, acked>>
  /\ UNCHANGED maint

\* a close() that resolves without awaiting the close() of the streams
close_resolve_early(i) ==
  /\ bus[i] = "stopping"
  /\ bus' = [bus EXCEPT ![i] = "closed"]
  /\ UNCHANGED <<redis, nextId, options, handlers, stream, wrapped,
                 published, dispatched, invoked, acked>>
  /\ UNCHANGED maint

\* Promise.all of the three EventStream.close() resolves
close_resolve(i) ==
  /\ bus[i] = "stopping"
  /\ \A m \in EventMode : stream[i][m].pc = "closed"
  /\ bus' = [bus EXCEPT ![i] = "closed"]
  /\ UNCHANGED <<redis, nextId, options, handlers, stream, wrapped,
                 published, dispatched, invoked, acked>>
  /\ UNCHANGED maint

\* Promise.all rejects as soon as one EventStream.close() has rejected
close_reject(i) ==
  /\ bus[i] = "stopping"
  /\ \E m \in EventMode : stream[i][m].pc = "dead"
  /\ bus' = [bus EXCEPT ![i] = "failed"]
  /\ UNCHANGED <<redis, nextId, options, handlers, stream, wrapped,
                 published, dispatched, invoked, acked>>
  /\ UNCHANGED maint

\* ------------------------------------------------------- the environment
\* The process of an initialized instance dies: its loops and its timers
\* stop where they are, nothing is acknowledged or closed.
crash(i) ==
  /\ bus[i] = "ready"
  /\ bus' = [bus EXCEPT ![i] = "crashed"]
  /\ stream' = [stream EXCEPT ![i] =
                  [m \in EventMode |-> [stream[i][m] EXCEPT !.pc = "crashed"]]]
  /\ UNCHANGED <<redis, nextId, options, handlers, wrapped,
                 published, dispatched, invoked, acked>>
  /\ maint' = [maint EXCEPT ![i] =
                 [NoMaintenance EXCEPT !.rejected = maint[i].rejected]]

\* Another client empties the server (cleanupRedis of the tests).
FLUSHALL ==
  /\ redis # <<>>
  /\ redis' = <<>>
  /\ UNCHANGED <<nextId, options, bus, handlers, stream, wrapped,
                 published, dispatched, invoked, acked>>
  /\ UNCHANGED maint

\* ------------------------------------------------- EventBus.maintainOnce
\* the consumers that XINFO CONSUMERS reports with an idle time above
\* options.streamTTL: those of the processes that have died, which read
\* no more
IdleConsumers ==
  {instanceId(j) : j \in {k \in Inst : bus[k] = "crashed"}}

\* maintainOnce, for the stream of reader m, after trimming and renewing:
\* XINFO CONSUMERS, then XGROUP DELCONSUMER for an idle consumer
maintainOnce_delconsumer(i, m, consumer) ==
  /\ bus[i] = "ready"
  /\ consumer \in IdleConsumers
  /\ Pending(redis, getStreamKey(i, m), getGroupKey(i, m), consumer) # {}
  /\ redis' = XGROUP_DELCONSUMER(redis, getStreamKey(i, m), getGroupKey(i, m),
                                 consumer)
  /\ UNCHANGED <<nextId, options, bus, handlers, stream, wrapped,
                 published, dispatched, invoked, acked>>
  /\ UNCHANGED maint

\* a command sent now follows QUIT on the control connection: the server
\* closes the connection after QUIT and the command is rejected
After(i) == bus[i] # "ready"

\* the worker after the consumers of its stream have been dealt with: the
\* next stream, and for the broadcast stream its groups first
Following(i, w) ==
  CASE w.at = ANYCAST ->
         [w EXCEPT !.pc = "xtrim", !.at = BROADCAST, !.del = {},
                   !.cut = After(i)]
    [] w.at = BROADCAST ->
         [w EXCEPT !.pc = "groups", !.del = {}, !.cut = After(i)]
    [] w.at = UNICAST ->
         [w EXCEPT !.pc = "idle", !.at = ANYCAST, !.del = {}, !.cut = FALSE]

\* a run of maintainOnce that rejects: nothing catches the rejection
Rejected(w) ==
  [w EXCEPT !.pc = "idle", !.at = ANYCAST, !.del = {}, !.cut = FALSE,
            !.rejected = TRUE]

\* name.replace(this.keyPrefix, ''): the name without its first occurrence
\* of the prefix
replace(name, P) ==
  LET ids == {instanceId(j) : j \in Inst} \cup {UnknownId}
  IN IF \E I \in ids : name = P \o I
     THEN CHOOSE I \in ids : name = P \o I
     ELSE name

\* the key whose existence stands for the life of the owner of a group
unicastStreamKey(i, name) ==
  keyPrefix(i) \o "unicast:" \o replace(name, keyPrefix(i))

\* the interval fires: the callback starts a run of maintainOnce, whose
\* first command is XTRIM of the anycast stream
timer(i) ==
  /\ bus[i] \in {"ready", "closing"}
  /\ maint[i].timer = 0
  /\ maint[i].pc = "idle"
  /\ maint' = [maint EXCEPT ![i] =
                 [@ EXCEPT !.timer = Period, !.pc = "xtrim", !.at = ANYCAST,
                           !.cut = After(i)]]
  /\ UNCHANGED <<redis, nextId, options, bus, handlers, stream, wrapped,
                 published, dispatched, invoked, acked>>

\* await xtrim(streamKey, 'MAXLEN', maxMessageCount); the commands of one
\* connection are executed in the order they were sent
maintainOnce_xtrim(i) ==
  /\ maint[i].pc = "xtrim"
  /\ ~maint[i].cut
  /\ \A p \in maint[i].probes : p.stage # "exists" \/ p.second
  /\ redis' = XTRIM(redis, getStreamKey(i, maint[i].at),
                    options[i].maxMessageCount)
  /\ maint' = [maint EXCEPT ![i] = [@ EXCEPT !.pc = "expire",
                                             !.cut = After(i)]]
  /\ UNCHANGED <<nextId, options, bus, handlers, stream, wrapped,
                 published, dispatched, invoked, acked>>

\* await expire(streamKey, streamTTL)
maintainOnce_expire(i) ==
  /\ maint[i].pc = "expire"
  /\ ~maint[i].cut
  /\ redis' = EXPIRE(redis, getStreamKey(i, maint[i].at),
                     options[i].streamTTL)
  /\ maint' = [maint EXCEPT ![i] = [@ EXCEPT !.pc = "xinfo",
                                             !.cut = After(i)]]
  /\ UNCHANGED <<nextId, options, bus, handlers, stream, wrapped,
                 published, dispatched, invoked, acked>>

\* await xinfo('CONSUMERS', streamKey, group): an error reply (no such key,
\* no such group) rejects the run. Otherwise XGROUP DELCONSUMER is sent,
\* with no await and no catch, for every consumer whose idle, a number of
\* milliseconds, is above options.streamTTL, a number of seconds.
maintainOnce_xinfo(i) ==
  /\ maint[i].pc = "xinfo"
  /\ ~maint[i].cut
  /\ LET key == getStreamKey(i, maint[i].at)
         group == getGroupKey(i, maint[i].at)
     IN IF XREADGROUP_fails(redis, key, group)
        THEN maint' = [maint EXCEPT ![i] = Rejected(@)]
        ELSE LET consumers == XINFO_CONSUMERS(redis, key, group)
                 del == {c \in DOMAIN consumers :
                           consumers[c] > options[i].streamTTL}
             IN maint' = [maint EXCEPT ![i] =
                            IF del = {} THEN Following(i, @)
                            ELSE [@ EXCEPT !.pc = "xgroup", !.del = del,
                                           !.cut = After(i)]]
  /\ UNCHANGED <<redis, nextId, options, bus, handlers, stream, wrapped,
                 published, dispatched, invoked, acked>>

\* the store after XGROUP DELCONSUMER for each consumer of a set
RECURSIVE DelConsumers(_, _, _, _)
DelConsumers(store, key, group, consumers) ==
  IF consumers = {} THEN store
  ELSE LET c == CHOOSE x \in consumers : TRUE
       IN DelConsumers(XGROUP_DELCONSUMER(store, key, group, c), key, group,
                       consumers \ {c})

\* the XGROUP DELCONSUMER commands of the forEach are executed; the next
\* command of the run was sent right behind them
maintainOnce_xgroup(i) ==
  /\ maint[i].pc = "xgroup"
  /\ ~maint[i].cut
  /\ redis' = DelConsumers(redis, getStreamKey(i, maint[i].at),
                           getGroupKey(i, maint[i].at), maint[i].del)
  /\ maint' = [maint EXCEPT ![i] = Following(i, @)]
  /\ UNCHANGED <<nextId, options, bus, handlers, stream, wrapped,
                 published, dispatched, invoked, acked>>

\* await xinfo('GROUPS', streamKey) on the broadcast stream: for every
\* group, exists(unicastStreamKey) is sent, with a then and no catch; the
\* run goes on with the unicast stream
maintainOnce_groups(i) ==
  /\ maint[i].pc = "groups"
  /\ ~maint[i].cut
  /\ LET key == getStreamKey(i, BROADCAST)
     IN IF XINFO_GROUPS_fails(redis, key)
        THEN maint' = [maint EXCEPT ![i] = Rejected(@)]
        ELSE maint' = [maint EXCEPT ![i] =
               [@ EXCEPT !.pc = "xtrim", !.at = UNICAST, !.cut = After(i),
                         !.probes = maint[i].probes \cup
                           {[group |-> name, stage |-> "exists",
                             second |-> FALSE, delay |-> 0,
                             cut |-> After(i)] :
                              name \in XINFO_GROUPS(redis, key)}]]
  /\ UNCHANGED <<redis, nextId, options, bus, handlers, stream, wrapped,
                 published, dispatched, invoked, acked>>

\* a command of the run that was sent after quit() is rejected: the run
\* ends there and its promise rejects
maintainOnce_reject(i) ==
  /\ bus[i] # "crashed"
  /\ maint[i].pc # "idle"
  /\ maint[i].cut
  /\ maint' = [maint EXCEPT ![i] = Rejected(@)]
  /\ UNCHANGED <<redis, nextId, options, bus, handlers, stream, wrapped,
                 published, dispatched, invoked, acked>>

\* the reply to exists(unicastStreamKey): for a key that exists nothing
\* more is done; a first reply of 0 starts the timeout of 2000 ms, a
\* second one sends XGROUP DESTROY for the group
probe_exists(i, p) ==
  /\ p \in maint[i].probes
  /\ p.stage = "exists"
  /\ ~p.cut
  /\ maint' = [maint EXCEPT ![i].probes =
       IF KeyExists(redis, unicastStreamKey(i, p.group))
       THEN @ \ {p}
       ELSE IF ~p.second
       THEN (@ \ {p}) \cup {[p EXCEPT !.stage = "timeout",
                                      !.delay = ProbeDelay]}
       ELSE (@ \ {p}) \cup {[p EXCEPT !.stage = "destroy",
                                      !.cut = After(i)]}]
  /\ UNCHANGED <<redis, nextId, options, bus, handlers, stream, wrapped,
                 published, dispatched, invoked, acked>>

\* the timeout fires, whatever has become of the instance in between:
\* exists(unicastStreamKey) is sent a second time
probe_timeout(i, p) ==
  /\ bus[i] # "crashed"
  /\ p \in maint[i].probes
  /\ p.stage = "timeout"
  /\ p.delay = 0
  /\ maint' = [maint EXCEPT ![i].probes =
       (@ \ {p}) \cup {[p EXCEPT !.stage = "exists", !.second = TRUE,
                                 !.cut = After(i)]}]
  /\ UNCHANGED <<redis, nextId, options, bus, handlers, stream, wrapped,
                 published, dispatched, invoked, acked>>

\* xgroup('DESTROY', streamKey, name) is executed
probe_destroy(i, p) ==
  /\ p \in maint[i].probes
  /\ p.stage = "destroy"
  /\ ~p.cut
  /\ redis' = XGROUP_DESTROY(redis, getStreamKey(i, BROADCAST), p.group)
  /\ maint' = [maint EXCEPT ![i].probes = @ \ {p}]
  /\ UNCHANGED <<nextId, options, bus, handlers, stream, wrapped,
                 published, dispatched, invoked, acked>>

\* a command of a check that was sent after quit() is rejected: the
\* rejection of XGROUP DESTROY is caught, that of exists is not
probe_reject(i, p) ==
  /\ bus[i] # "crashed"
  /\ p \in maint[i].probes
  /\ p.stage \in {"exists", "destroy"}
  /\ p.cut
  /\ maint' = [maint EXCEPT ![i] =
       [@ EXCEPT !.probes = maint[i].probes \ {p},
                 !.rejected = maint[i].rejected \/ p.stage = "exists"]]
  /\ UNCHANGED <<redis, nextId, options, bus, handlers, stream, wrapped,
                 published, dispatched, invoked, acked>>

\* the command in flight of a run fails (the connection drops, the server
\* replies with an error): an awaited command rejects the run; XGROUP
\* DELCONSUMER, which nothing awaits, rejects on its own and the run goes on
maintainOnce_fail(i) ==
  /\ maint[i].pc # "idle"
  /\ ~maint[i].cut
  /\ maint' = [maint EXCEPT ![i] =
                 IF maint[i].pc = "xgroup"
                 THEN [Following(i, @) EXCEPT !.rejected = TRUE]
                 ELSE Rejected(@)]
  /\ UNCHANGED <<redis, nextId, options, bus, handlers, stream, wrapped,
                 published, dispatched, invoked, acked>>

\* a rejection that nothing handles ends the process, unless the
\* application has installed a handler of its own for such rejections
unhandledRejection(i) ==
  /\ bus[i] = "ready"
  /\ maint[i].rejected
  /\ bus' = [bus EXCEPT ![i] = "crashed"]
  /\ stream' = [stream EXCEPT ![i] =
                  [m \in EventMode |-> [stream[i][m] EXCEPT !.pc = "crashed"]]]
  /\ maint' = [maint EXCEPT ![i] = [NoMaintenance EXCEPT !.rejected = TRUE]]
  /\ UNCHANGED <<redis, nextId, options, handlers, wrapped,
                 published, dispatched, invoked, acked>>

\* the steps of the maintenance worker of an instance
Maintenance(i) ==
  \/ timer(i)
  \/ maintainOnce_xtrim(i)
  \/ maintainOnce_expire(i)
  \/ maintainOnce_xinfo(i)
  \/ maintainOnce_xgroup(i)
  \/ maintainOnce_groups(i)
  \/ \E p \in maint[i].probes :
       \/ probe_exists(i, p)
       \/ probe_timeout(i, p)
       \/ probe_destroy(i, p)

\* no command of a control connection is in flight, QUIT included: the
\* store answers a command in far less than a second
Quiet ==
  \A i \in Inst :
    /\ bus[i] # "closing"
    /\ maint[i].pc = "idle"
    /\ \A p \in maint[i].probes : p.stage = "timeout"

\* the seconds until the next interval or timeout is due, Period when
\* none is set
NextDue ==
  LET due == {maint[i].timer : i \in {j \in Inst : maint[j].timer # NoTimer}}
               \cup {p.delay : p \in UNION {maint[i].probes : i \in Inst}}
  IN IF due = {} THEN Period
     ELSE CHOOSE d \in due : \A e \in due : d <= e

\* a reader that is blocked in XREADGROUP ... BLOCK 1000 issues the command
\* again every second: it has not been idle for a second
Polling(key, group, consumer) ==
  \E i \in Inst, m \in EventMode :
    /\ stream[i][m].pc = "read"
    /\ getStreamKey(i, m) = key
    /\ getGroupKey(i, m) = group
    /\ instanceId(i) = consumer

\* the store as the polling readers leave it
Polls(store) ==
  [k \in DOMAIN store |->
     [store[k] EXCEPT
        !.groups = [g \in DOMAIN @ |->
                      [@[g] EXCEPT !.idle =
                         [c \in DOMAIN @ |->
                            IF Polling(k, g, c) THEN 0 ELSE @[c]]]]]]

\* every reader that runs is blocked in its XREADGROUP or awaits a handler
\* of the application: what lies between takes far less than a second, and
\* so does the end of a loop whose flag is down, which the reply to its
\* blocked read brings within the second
Settled ==
  \A i \in Inst, m \in EventMode :
    /\ stream[i][m].pc \notin {"batch", "ack", "done"}
    /\ stream[i][m].pc = "read" => stream[i][m].loop

\* d seconds pass, up to the moment the next interval or timeout is due
Advance(d) ==
  /\ d > 0
  /\ d <= NextDue
  /\ Quiet
  /\ Settled
  /\ redis' = Polls(Elapse(redis, d))
  /\ maint' = [i \in Inst |->
       [maint[i] EXCEPT
          !.timer = IF @ = NoTimer THEN @ ELSE @ - d,
          !.probes = {[p EXCEPT !.delay = @ - d] : p \in @}]]
  /\ UNCHANGED <<nextId, options, bus, handlers, stream, wrapped,
                 published, dispatched, invoked, acked>>

\* no worker but that of instance i has a command in flight: the runs of
\* different instances follow one another
Alone(i) ==
  \A j \in Inst \ {i} :
    /\ maint[j].pc = "idle"
    /\ \A p \in maint[j].probes : p.stage = "timeout"

\* the runs of maintainOnce, one instance after the other, up to the first
\* reply to each existence check
Runs ==
  \E i \in Inst :
    \/ Alone(i) /\ timer(i)
    \/ Alone(i) /\ maintainOnce_xtrim(i)
    \/ Alone(i) /\ maintainOnce_expire(i)
    \/ Alone(i) /\ maintainOnce_xinfo(i)
    \/ Alone(i) /\ maintainOnce_groups(i)
    \/ \E p \in maint[i].probes : Alone(i) /\ probe_exists(i, p)

\* what follows a reply of XINFO CONSUMERS that reports idle consumers
Prunes ==
  \E i \in Inst : Alone(i) /\ maintainOnce_xgroup(i)

\* what follows a first reply of 0: the timeout, the second check that
\* probe_exists answers, XGROUP DESTROY
Collects ==
  \E i \in Inst :
    \/ \E p \in maint[i].probes : Alone(i) /\ probe_timeout(i, p)
    \/ \E p \in maint[i].probes : Alone(i) /\ probe_destroy(i, p)

\* the event loop of a process runs its timers and continuations
MaintenanceFairness(i) ==
  /\ WF_vars(timer(i))
  /\ WF_vars(maintainOnce_xtrim(i))
  /\ WF_vars(maintainOnce_expire(i))
  /\ WF_vars(maintainOnce_xinfo(i))
  /\ WF_vars(maintainOnce_xgroup(i))
  /\ WF_vars(maintainOnce_groups(i))
  /\ WF_vars(\E p \in maint[i].probes :
               probe_exists(i, p) \/ probe_timeout(i, p) \/ probe_destroy(i, p))

\* ------------------------------------------------------ initial states
\* the state after `new EventBus({ redis, onlyNew, role })` on each process
\* against an empty store, and after the on() calls that filled `table`
Constructed(onlyNew, role, table) ==
  /\ redis = <<>>
  /\ nextId = 1
  /\ options = [i \in Inst |-> [name |-> "default", onlyNew |-> onlyNew[i],
                                role |-> role[i],
                                streamTTL |-> streamTTLOf(<<>>),
                                maxMessageCount |-> maxMessageCountOf(<<>>)]]
  /\ bus = [i \in Inst |-> "new"]
  /\ handlers = table
  /\ stream = [i \in Inst |-> [m \in EventMode |-> NewStream]]
  /\ wrapped = [i \in Inst |-> 0]
  /\ published = <<>>
  /\ dispatched = EmptyBag
  /\ invoked = EmptyBag
  /\ acked = EmptyBag
  /\ maint = [i \in Inst |-> NoMaintenance]

\* every instance with the default options
Init ==
  Constructed([i \in Inst |-> FALSE], [i \in Inst |-> "both"],
              [i \in Inst |-> <<>>])

\* the steps of the instances themselves: init and the three reader loops
Run ==
  \E i \in Inst :
    \/ init(i)
    \/ init_resolve(i)
    \/ \E m \in EventMode :
         \/ EventStream_init(i, m)
         \/ startLoop_xreadgroup(i, m)
         \/ startLoop_dispatch(i, m)
         \/ handleMessage_resume(i, m)
         \/ startLoop_xack(i, m)

\* the event loop of each process runs every continuation that is ready,
\* and the handlers of the application settle
Fairness ==
  \A i \in Inst :
    /\ \A m \in EventMode :
         /\ WF_vars(startLoop_xreadgroup(i, m))
         /\ WF_vars(startLoop_dispatch(i, m))
         /\ WF_vars(handleMessage_resume(i, m))
         /\ WF_vars(startLoop_xack(i, m))

\* -------------------------------------------------------------- history
Count(bag, x) == CopiesIn(x, bag)
IsPublished(id) == id \in DOMAIN published
RecordIds == 1..MaxRecords

\* number of times instance i handed record id to handleMessage
Dispatches(i, id) ==
  Count(dispatched, <<i, ANYCAST, id>>) + Count(dispatched, <<i, BROADCAST, id>>)
    + Count(dispatched, <<i, UNICAST, id>>)

\* The store after the reader of mode m of an instance has run its init
\* and received the empty reply to its first XREADGROUP, and the first run
\* of maintainOnce has renewed the stream's time to live.
StreamAfterInit(store, P, I, m, onlyNew) ==
  LET key == StreamKeyOf(P, I, m)
      group == GroupKeyOf(P, I, m)
  IN EXPIRE(XREADGROUP(EventStream_xgroup(store, key, group, onlyNew),
                       key, group, I, batchSize(m)),
            key, streamTTLOf(<<>>))

\* The store after the instances 1..n have run init() against an empty
\* store, all under the bus name `name`, and each has completed its first
\* run of maintainOnce.
RECURSIVE StoreAfterInit(_, _, _)
StoreAfterInit(n, name, onlyNew) ==
  IF n = 0 THEN <<>>
  ELSE LET P == keyPrefixOf(name)
           I == instanceId(n)
           s0 == StoreAfterInit(n - 1, name, onlyNew)
           s1 == StreamAfterInit(s0, P, I, ANYCAST, onlyNew)
           s2 == StreamAfterInit(s1, P, I, BROADCAST, onlyNew)
       IN StreamAfterInit(s2, P, I, UNICAST, onlyNew)

\* The state after every instance has registered the handlers of `table`
\* (on / once before init, as the tests do), `await init()` has resolved
\* on all of them and the first run of maintainOnce is over; nothing has
\* been emitted yet.
Started(role, table, wrappers) ==
  /\ redis = StoreAfterInit(NumInst, "default", FALSE)
  /\ nextId = 1
  /\ options = [i \in Inst |-> [name |-> "default", onlyNew |-> FALSE,
                                role |-> role[i],
                                streamTTL |-> streamTTLOf(<<>>),
                                maxMessageCount |-> maxMessageCountOf(<<>>)]]
  /\ bus = [i \in Inst |-> "ready"]
  /\ handlers = table
  /\ stream = [i \in Inst |-> [m \in EventMode |->
                                 [NewStream EXCEPT !.pc = "read",
                                                   !.loop = TRUE]]]
  /\ wrapped = wrappers
  /\ published = <<>>
  /\ dispatched = EmptyBag
  /\ invoked = EmptyBag
  /\ acked = EmptyBag
  /\ maint = [i \in Inst |-> Waiting]

\* The state after the instances 1..n have registered the handlers of
\* `table` and `await init()` has resolved on them, while the others have
\* registered theirs and are constructed only; all with the same onlyNew.
StartedFirst(n, onlyNew, table) ==
  /\ redis = StoreAfterInit(n, "default", onlyNew)
  /\ nextId = 1
  /\ options = [i \in Inst |-> [name |-> "default", onlyNew |-> onlyNew,
                                role |-> "both",
                                streamTTL |-> streamTTLOf(<<>>),
                                maxMessageCount |-> maxMessageCountOf(<<>>)]]
  /\ bus = [i \in Inst |-> IF i <= n THEN "ready" ELSE "new"]
  /\ handlers = table
  /\ stream = [i \in Inst |-> [m \in EventMode |->
                 IF i <= n THEN [NewStream EXCEPT !.pc = "read", !.loop = TRUE]
                 ELSE NewStream]]
  /\ wrapped = [i \in Inst |-> 0]
  /\ published = <<>>
  /\ dispatched = EmptyBag
  /\ invoked = EmptyBag
  /\ acked = EmptyBag
  /\ maint = [i \in Inst |-> IF i <= n THEN Waiting ELSE NoMaintenance]

\* the steps of the three reader loops of the instances
Loops ==
  \E i \in Inst, m \in EventMode :
    \/ startLoop_xreadgroup(i, m)
    \/ startLoop_dispatch(i, m)
    \/ handleMessage_resume(i, m)
    \/ startLoop_xack(i, m)

\* ===================================================== broadcast fan-out
\* The messages instance 1 emits as broadcasts: with the mode, or with
\* neither mode nor target.
BroadcastMessages ==
  {[data |-> "d"], [mode |-> BROADCAST, data |-> "d"]}

\* every instance has subscribed h1 to "e" and is initialized
InitBroadcast ==
  Started([i \in Inst |-> "both"],
          [i \in Inst |-> on_table(<<>>, "e", Handler("h1", 0))],
          [i \in Inst |-> 0])

NextBroadcast ==
  \/ Loops
  \/ \E message \in BroadcastMessages : emit(1, "e", message)

SpecBroadcast == InitBroadcast /\ [][NextBroadcast]_vars /\ Fairness

IsBroadcast(id) ==
  IsPublished(id) /\ published[id].key = keyPrefixOf("default") \o "broadcast"

\* instance i has handed record id to handleMessage once and called each
\* handler it held when the record was emitted once
Delivered(i, id) ==
  /\ Count(dispatched, <<i, BROADCAST, id>>) = 1
  /\ \A h \in published[id].subs[i] : Count(invoked, <<i, id, h>>) = 1

\* C1: every broadcast record is handed to handleMessage by each of the
\* initialized, subscribed instances at most once in every state, each of
\* its handlers is called at most once for it, and again and again a state
\* is reached in which each instance has dispatched every broadcast record
\* emitted so far exactly once to every handler it held when the record
\* was emitted.
C1_BroadcastFanOut ==
  /\ [](\A id \in RecordIds, i \in Inst :
          IsBroadcast(id) =>
            /\ Dispatches(i, id) <= 1
            /\ \A h \in published[id].subs[i] : Count(invoked, <<i, id, h>>) <= 1)
  /\ []<>(\A id \in RecordIds, i \in Inst : IsBroadcast(id) => Delivered(i, id))

\* every instance has dispatched one broadcast record to its handler h1
C1_Witness ==
  \E id \in RecordIds :
    /\ IsBroadcast(id)
    /\ \A i \in Inst :
         /\ Count(dispatched, <<i, BROADCAST, id>>) = 1
         /\ Handler("h1", 0) \in published[id].subs[i]
         /\ Count(invoked, <<i, id, Handler("h1", 0)>>) = 1

\* ======================================================= anycast queue
\* the handler table of an instance that has called on("e", h1), and of
\* one that has registered nothing
SubscribedTable == on_table(<<>>, "e", Handler("h1", 0))
NoTable == <<>>

\* every instance is initialized; each has subscribed h1 to "e" or has no
\* handler at all
InitAnycast ==
  \E table \in [Inst -> {SubscribedTable, NoTable}] :
    Started([i \in Inst |-> "both"], table, [i \in Inst |-> 0])

NextAnycast ==
  \/ Loops
  \/ \E i \in Inst : emit(i, "e", [mode |-> ANYCAST, data |-> "d"])

SpecAnycast == InitAnycast /\ [][NextAnycast]_vars /\ Fairness

IsAnycast(id) ==
  IsPublished(id) /\ published[id].key = keyPrefixOf("default") \o "anycast"

\* the instances that have handed record id to handleMessage
Dispatchers(id) == {i \in Inst : Dispatches(i, id) > 0}

\* C2: an anycast record is handed to handleMessage by at most one instance,
\* at most once, and is read (made pending or acknowledged) by at most one
\* consumer of the shared group.
C2_AnycastNoDuplicates ==
  \A id \in RecordIds :
    IsAnycast(id) =>
      /\ Cardinality(Dispatchers(id)) <= 1
      /\ \A i \in Inst :
           /\ Dispatches(i, id) <= 1
           /\ Count(acked, <<i, ANYCAST, id>>) <= 1
           /\ Count(invoked, <<i, id, Handler("h1", 0)>>) <= 1

\* two anycast records have been dispatched, one by each of two instances
\* that read the shared group concurrently
C2_Witness ==
  \E a, b \in RecordIds, i, j \in Inst :
    /\ a # b /\ i # j
    /\ IsAnycast(a) /\ IsAnycast(b)
    /\ Count(invoked, <<i, a, Handler("h1", 0)>>) = 1
    /\ Count(invoked, <<j, b, Handler("h1", 0)>>) = 1

\* C3: an anycast record published while some initialized instance holds a
\* handler for its topic is never acknowledged by an instance that holds no
\* handler for that topic.
C3_AnycastOnlySubscribers ==
  \A id \in RecordIds, i \in Inst :
    (/\ IsAnycast(id)
     /\ \E j \in Inst : published[id].subs[j] # {}
     /\ Count(acked, <<i, ANYCAST, id>>) > 0)
    => published[id].subs[i] # {}


\* ======================================================= unicast inbox
\* the ids the application addresses: every instance, and an id nobody owns
Targets == {instanceId(i) : i \in Inst} \cup {UnknownId}

\* the messages the application emits with a target, with and without a
\* mode next to it
UnicastMessages ==
  {[target |-> t, data |-> "d"] : t \in Targets}
    \cup {[target |-> instanceId(1), mode |-> ANYCAST, data |-> "d"]}

InitUnicast ==
  Started([i \in Inst |-> "both"], [i \in Inst |-> SubscribedTable],
          [i \in Inst |-> 0])

NextUnicast ==
  \/ Loops
  \/ \E i \in Inst, message \in UnicastMessages : emit(i, "e", message)

SpecUnicast == InitUnicast /\ [][NextUnicast]_vars /\ Fairness

HasTarget(id) == IsPublished(id) /\ "target" \in DOMAIN published[id].message

\* record id is in a reply that a reader of instance i is working on
Holds(i, id) ==
  \E m \in EventMode :
    \E n \in 1..Len(stream[i][m].batch) : stream[i][m].batch[n].id = id

\* C4: a record emitted with target T is read, dispatched and acknowledged
\* by no instance other than the one whose id is T.
C4_UnicastTargeting ==
  \A id \in RecordIds, i \in Inst :
    (/\ HasTarget(id)
     /\ \/ Holds(i, id)
        \/ Dispatches(i, id) > 0
        \/ \E m \in EventMode : Count(acked, <<i, m, id>>) > 0
        \/ Count(invoked, <<i, id, Handler("h1", 0)>>) > 0)
    => instanceId(i) = published[id].message.target

\* an instance has dispatched a record that another instance emitted with
\* its id as target, and a record for an id nobody owns was emitted too
C4_Witness ==
  \E id, other \in RecordIds, i \in Inst :
    /\ HasTarget(id) /\ HasTarget(other)
    /\ published[id].by # i
    /\ published[id].message.target = instanceId(i)
    /\ published[other].message.target # instanceId(i)
    /\ Count(invoked, <<i, id, Handler("h1", 0)>>) = 1

\* the pending ids of the unicast consumer of instance i
UnicastPending(i) ==
  Pending(redis, getStreamKey(i, UNICAST), getGroupKey(i, UNICAST),
          instanceId(i))

\* C5: when the unicast reader has finished with a reply and is about to
\* issue its next XREADGROUP, every record the group has delivered to it
\* was dispatched exactly once and none of them is still pending.
C5_BatchDispatchedAndAcked ==
  \A i \in Inst :
    stream[i][UNICAST].pc = "read" =>
      /\ UnicastPending(i) = {}
      /\ \A id \in RecordIds :
           (/\ IsPublished(id)
            /\ published[id].key = getStreamKey(i, UNICAST)
            /\ id <= redis[getStreamKey(i, UNICAST)]
                       .groups[getGroupKey(i, UNICAST)].last)
           => Count(dispatched, <<i, UNICAST, id>>) = 1


\* ================================================== the role option
\* Instance 1 is constructed with role "publisher" and registers nothing;
\* the others are constructed with role "consumer" and subscribe h1 to "e".
InitRole ==
  Constructed([i \in Inst |-> FALSE],
              [i \in Inst |-> IF i = 1 THEN "publisher" ELSE "consumer"],
              [i \in Inst |-> IF i = 1 THEN NoTable ELSE SubscribedTable])

NextRole ==
  \/ Run
  \/ \E i \in Inst :
       /\ options[i].role = "publisher"
       /\ emit(i, "e", [mode |-> ANYCAST, data |-> "d"])

InitFairness ==
  \A i \in Inst :
    /\ WF_vars(init(i))
    /\ WF_vars(init_resolve(i))
    /\ \A m \in EventMode : WF_vars(EventStream_init(i, m))

SpecRole == InitRole /\ [][NextRole]_vars /\ InitFairness /\ Fairness

\* C6: an instance constructed with role "publisher" never starts a reader
\* loop, never holds a record of any stream and never acknowledges one.
C6_PublisherStartsNoReader ==
  \A i \in Inst :
    options[i].role = "publisher" =>
      /\ \A m \in EventMode : stream[i][m].pc = "off"
      /\ \A id \in RecordIds :
           /\ ~Holds(i, id)
           /\ \A m \in EventMode : Count(acked, <<i, m, id>>) = 0


\* ================================================================ once
\* Every instance is initialized with an empty handler table; the
\* application then calls once("e", h1) and emits "e" as broadcasts and as
\* unicasts, so that records of one topic arrive on two readers of the
\* same instance.
InitOnce ==
  Started([i \in Inst |-> "both"], [i \in Inst |-> NoTable],
          [i \in Inst |-> 0])

OnceMessages ==
  {[data |-> "d"]} \cup {[target |-> instanceId(i), data |-> "d"] : i \in Inst}

NextOnce ==
  \/ Loops
  \/ \E i \in Inst : once(i, "e", "h1")
  \/ \E message \in OnceMessages : emit(1, "e", message)

SpecOnce == InitOnce /\ [][NextOnce]_vars /\ Fairness

\* the records for which instance i has called handler h
InvokedFor(i, h) == {id \in RecordIds : Count(invoked, <<i, id, h>>) > 0}

\* C7: the function passed to one once() registration is called for at most
\* one record, and at most once for it.
C7_OnceAtMostOnce ==
  \A i \in Inst, w \in 1..(MaxOnce + 1) :
    /\ Cardinality(InvokedFor(i, Handler("h1", w))) <= 1
    /\ \A id \in RecordIds : Count(invoked, <<i, id, Handler("h1", w)>>) <= 1


\* ============================================ failing handlers, bad records
\* the table after on("e", hx); on("e", h1), and after the two calls in the
\* other order
ThrowFirstTable == on_table(on_table(<<>>, "e", Handler("hx", 0)),
                            "e", Handler("h1", 0))
ThrowLastTable == on_table(on_table(<<>>, "e", Handler("h1", 0)),
                           "e", Handler("hx", 0))

\* every instance is initialized with a handler that throws and one that
\* does not, registered in either order
InitFailure ==
  \E table \in [Inst -> {ThrowFirstTable, ThrowLastTable}] :
    Started([i \in Inst |-> "both"], table, [i \in Inst |-> 0])

FailureMessages ==
  {[data |-> "d"], [mode |-> ANYCAST, data |-> "d"]}
    \cup {[target |-> instanceId(i), data |-> "d"] : i \in Inst}

NextFailure ==
  \/ Loops
  \/ \E message \in FailureMessages : emit(1, "e", message)
  \/ \E key \in DOMAIN redis : ForeignXADD(key)

SpecFailure == InitFailure /\ [][NextFailure]_vars /\ Fairness

\* reader m of instance i has acknowledged record id
Acked(i, m, id) == Count(acked, <<i, m, id>>) > 0

\* C8: once the dispatch of a record on an instance is over (the record is
\* acknowledged), every handler the instance held for the topic when the
\* record was emitted has been called for it, also when one of them throws.
C8_FailureSkipsNoHandler ==
  \A id \in RecordIds, i \in Inst, m \in EventMode :
    (IsPublished(id) /\ published[id].by # 0 /\ Acked(i, m, id)) =>
      \A h \in published[id].subs[i] : Count(invoked, <<i, id, h>>) >= 1

\* the entry of the store with the given id is not an encoded envelope
IsCorrupt(id) == IsPublished(id) /\ published[id].by = 0

\* the pending ids of the consumer of reader m of instance i
ReaderPending(i, m) ==
  Pending(redis, getStreamKey(i, m), getGroupKey(i, m), instanceId(i))

\* reader m of instance i is dispatching record id
Dispatching(i, m, id) ==
  /\ stream[i][m].pc \in {"batch", "await"}
  /\ stream[i][m].batch[1].id = id

\* C9: no record is acknowledged twice or before its dispatch is over, and
\* when a reader is about to issue its next XREADGROUP it has acknowledged
\* every record it handed to handleMessage, whatever the handlers did, and
\* no record that cannot be decoded is left in its pending list.
C9_NoPoisonPill ==
  \A i \in Inst, m \in EventMode, id \in RecordIds :
    /\ Count(acked, <<i, m, id>>) <= 1
    /\ Acked(i, m, id) => ~Dispatching(i, m, id)
    /\ stream[i][m].pc = "read" =>
         /\ Count(dispatched, <<i, m, id>>) > 0 =>
              (Acked(i, m, id) /\ id \notin ReaderPending(i, m))
         /\ IsCorrupt(id) => id \notin ReaderPending(i, m)


\* ======================================================= the envelope
\* Messages whose object carries fields of the envelope that the caller
\* has no business setting: a source, an event, a timestamp, a mode next
\* to a target. One is an anycast, the other a unicast to instance 2.
SpoofMessages ==
  {[source |-> instanceId(1), event |-> "f", timestamp |-> "0",
    mode |-> ANYCAST, data |-> "d"],
   [target |-> instanceId(2), mode |-> BROADCAST, source |-> "evil",
    data |-> "d"]}

InitEnvelope ==
  Started([i \in Inst |-> "both"], [i \in Inst |-> SubscribedTable],
          [i \in Inst |-> 0])

NextEnvelope ==
  \/ Loops
  \/ \E i \in Inst, message \in SpoofMessages : emit(i, "e", message)

SpecEnvelope == InitEnvelope /\ [][NextEnvelope]_vars /\ Fairness

\* the envelope that reader m of instance i has passed to the handler it
\* is awaiting
Envelope(i, m) == EJSON_parse(stream[i][m].batch[1].value)

\* C10: in every envelope a handler receives, source is the id of the
\* instance whose emit appended the record, event is the event argument of
\* that emit, mode is the mode emit computed and timestamp is the time of
\* the emit, whatever the message object carried.
C10_SourceRoundTrip ==
  \A i \in Inst, m \in EventMode :
    stream[i][m].pc = "await" =>
      LET p == published[stream[i][m].batch[1].id]
      IN /\ Get(Envelope(i, m), "source") = instanceId(p.by)
         /\ Get(Envelope(i, m), "event") = p.event
         /\ Get(Envelope(i, m), "mode") = emit_mode(p.message)
         /\ Get(Envelope(i, m), "timestamp") = DateNow

\* a handler is running on an envelope that another instance emitted with
\* a message object carrying a source of its own
C10_Witness ==
  \E i \in Inst, m \in EventMode :
    /\ stream[i][m].pc = "await"
    /\ LET p == published[stream[i][m].batch[1].id]
       IN /\ p.by # i
          /\ Get(p.message, "source") \notin {Undefined, instanceId(p.by)}
          /\ Get(Envelope(i, m), "source") = instanceId(p.by)

\* ================================================= late initialization
\* All instances but the last have subscribed h1 to "e" and are
\* initialized; the last has subscribed and calls init() later, at any
\* time. Instance 1 emits broadcasts of "e" before, while and after it
\* does. All are constructed with onlyNew = true.
InitLate ==
  StartedFirst(NumInst - 1, TRUE, [i \in Inst |-> SubscribedTable])

NextLate ==
  \/ Run
  \/ emit(1, "e", [data |-> "d"])

\* the event loop runs the steps of init and of the broadcast reader
LateFairness ==
  \A i \in Inst :
    /\ WF_vars(init(i))
    /\ WF_vars(init_resolve(i))
    /\ WF_vars(EventStream_init(i, BROADCAST))
    /\ WF_vars(EventStream_init(i, ANYCAST) \/ EventStream_init(i, UNICAST))
    /\ WF_vars(startLoop_xreadgroup(i, BROADCAST))
    /\ WF_vars(startLoop_dispatch(i, BROADCAST))
    /\ WF_vars(handleMessage_resume(i, BROADCAST))
    /\ WF_vars(startLoop_xack(i, BROADCAST))

SpecLate == InitLate /\ [][NextLate]_vars /\ LateFairness

\* the broadcast group of instance i existed when record id was appended
JoinedBefore(i, id) == i \in published[id].joined

\* instance i dispatches the broadcast records it dispatches in the order
\* of their ids, skipping none that was appended after its group was created
InOrder(i) ==
  \A a, b \in RecordIds :
    (/\ a < b /\ IsBroadcast(a) /\ IsBroadcast(b) /\ JoinedBefore(i, a)
     /\ Count(dispatched, <<i, BROADCAST, b>>) > 0)
    => Count(dispatched, <<i, BROADCAST, a>>) > 0

\* C11: with onlyNew = true, an instance never reads or dispatches a
\* broadcast record that was appended before its init created its
\* broadcast group; every instance dispatches the records appended after
\* its group was created in emission order; and again and again a state is
\* reached in which every instance has dispatched, exactly once, every
\* broadcast record that was appended after its init had resolved (the
\* instance initialized first: all of them).
C11_LateSubscriberOnlyNew ==
  /\ [](\A id \in RecordIds, i \in Inst :
          (IsBroadcast(id) /\ ~JoinedBefore(i, id)) =>
            (Dispatches(i, id) = 0 /\ ~Holds(i, id)))
  /\ [](\A i \in Inst : InOrder(i))
  /\ []<>(\A id \in RecordIds, i \in Inst :
            (IsBroadcast(id) /\ published[id].subs[i] # {}) => Delivered(i, id))

\* instance 1 has dispatched two records, a before b; the last instance,
\* whose group was created between the two appends, has dispatched b only
C11_Witness ==
  \E a, b \in RecordIds :
    /\ a < b /\ IsBroadcast(a) /\ IsBroadcast(b)
    /\ ~JoinedBefore(NumInst, a)
    /\ published[b].subs[NumInst] # {}
    /\ Delivered(1, a) /\ Delivered(1, b)
    /\ Dispatches(NumInst, a) = 0 /\ Delivered(NumInst, b)

\* ======================================================= history replay
\* The same scenario with onlyNew = false (the default).
InitHistory ==
  StartedFirst(NumInst - 1, FALSE, [i \in Inst |-> SubscribedTable])

NextHistory ==
  \/ Run
  \/ emit(1, "e", [data |-> "d"])

SpecHistory == InitHistory /\ [][NextHistory]_vars /\ LateFairness

\* instance i dispatches the broadcast records in the order of their ids,
\* skipping none
InStoreOrder(i) ==
  \A a, b \in RecordIds :
    (/\ a < b /\ IsBroadcast(a) /\ IsBroadcast(b)
     /\ Count(dispatched, <<i, BROADCAST, b>>) > 0)
    => Count(dispatched, <<i, BROADCAST, a>>) > 0

\* C12: with onlyNew = false, every instance dispatches the broadcast
\* records in store id order, none twice, and again and again a state is
\* reached in which every initialized instance, whenever its init ran, has
\* dispatched every broadcast record in the stream exactly once to its
\* handler: those appended before its group was created and those
\* appended after.
C12_HistoryReplay ==
  /\ [](\A i \in Inst :
          /\ InStoreOrder(i)
          /\ \A id \in RecordIds :
               IsBroadcast(id) =>
                 /\ Dispatches(i, id) <= 1
                 /\ Count(invoked, <<i, id, Handler("h1", 0)>>) <= 1)
  /\ []<>(\A i \in Inst, id \in RecordIds :
            (bus[i] = "ready" /\ IsBroadcast(id)) =>
              /\ Count(dispatched, <<i, BROADCAST, id>>) = 1
              /\ Count(invoked, <<i, id, Handler("h1", 0)>>) = 1)

\* the last instance, whose group was created after record a was appended
\* and before record b was, has dispatched both, as instance 1 has
C12_Witness ==
  \E a, b \in RecordIds :
    /\ a < b /\ IsBroadcast(a) /\ IsBroadcast(b)
    /\ ~JoinedBefore(NumInst, a) /\ JoinedBefore(NumInst, b)
    /\ \A i \in {1, NumInst}, id \in {a, b} :
         /\ Count(dispatched, <<i, BROADCAST, id>>) = 1
         /\ Count(invoked, <<i, id, Handler("h1", 0)>>) = 1

\* ================================================================ close
\* Every instance has subscribed h1 to "e" and is initialized. Instance 1
\* emits anycasts of "e" and calls close() at any time; from then on
\* instance 2 emits them, as in the failover test.
CloseMessages == {[mode |-> ANYCAST, data |-> "d"]}

InitClose ==
  Started([i \in Inst |-> "both"], [i \in Inst |-> SubscribedTable],
          [i \in Inst |-> 0])

NextClose ==
  \/ Loops
  \/ close(1)
  \/ \E i \in Inst :
       \/ close_streams(i)
       \/ close_resolve(i)
       \/ \E m \in EventMode : EventStream_close(i, m)
  \/ \E message \in CloseMessages :
       \/ emit(1, "e", message)
       \/ bus[1] # "ready" /\ emit(2, "e", message)

\* the event loop runs the steps of the anycast readers
AnycastFairness ==
  \A i \in Inst :
    /\ WF_vars(startLoop_xreadgroup(i, ANYCAST))
    /\ WF_vars(startLoop_dispatch(i, ANYCAST))
    /\ WF_vars(handleMessage_resume(i, ANYCAST))
    /\ WF_vars(startLoop_xack(i, ANYCAST))

SpecClose == InitClose /\ [][NextClose]_vars /\ AnycastFairness

\* record id was appended after close() of instance i had resolved
AfterClose(i, id) == IsPublished(id) /\ i \in published[id].closed

\* a step in which instance i issues a command on a stream or calls a handler
Activity(i) ==
  \/ \E m \in EventMode :
       \/ startLoop_xreadgroup(i, m)
       \/ startLoop_dispatch(i, m)
       \/ handleMessage_resume(i, m)
       \/ startLoop_xack(i, m)
  \/ \E message \in CloseMessages : emit(i, "e", message)
  \/ \E id \in RecordIds, m \in EventMode :
       \/ Count(dispatched', <<i, m, id>>) # Count(dispatched, <<i, m, id>>)
       \/ Count(acked', <<i, m, id>>) # Count(acked, <<i, m, id>>)
  \/ \E id \in DOMAIN published' \ DOMAIN published : published'[id].by = i

\* C13: once close() of an instance has resolved, its three reader loops
\* have ended and their connections are closed, no step of the instance
\* issues XREADGROUP, XACK or XADD or calls a handler, no record appended
\* after that point is ever read, dispatched or acknowledged by it, and
\* again and again a state is reached in which every anycast record
\* appended after that point has been dispatched exactly once, by one of
\* the other instances.
C13_ResourceRelease ==
  /\ [](\A i \in Inst : bus[i] = "closed" =>
          \A m \in EventMode : stream[i][m].pc = "closed" /\ ~stream[i][m].loop)
  /\ [][\A i \in Inst : bus[i] = "closed" => ~Activity(i)]_vars
  /\ [](\A i \in Inst, id \in RecordIds :
          AfterClose(i, id) =>
            /\ Dispatches(i, id) = 0 /\ ~Holds(i, id)
            /\ \A m \in EventMode : ~Acked(i, m, id))
  /\ []<>(\A id \in RecordIds :
            (IsAnycast(id) /\ published[id].closed # {}) =>
              \E j \in Inst \ published[id].closed :
                /\ Dispatchers(id) = {j}
                /\ Count(invoked, <<j, id, Handler("h1", 0)>>) = 1
                /\ Acked(j, ANYCAST, id))

\* close() of instance 1 was called while its anycast reader was awaiting
\* a handler and has resolved; an anycast record appended after that has
\* been dispatched by another instance
C13_Witness ==
  \E a, b \in RecordIds :
    /\ bus[1] = "closed"
    /\ IsAnycast(a) /\ ~AfterClose(1, a) /\ Dispatchers(a) = {1}
    /\ published[a].subs[1] = {}
    /\ IsAnycast(b) /\ AfterClose(1, b)
    /\ \E j \in Inst \ {1} : Dispatchers(b) = {j} /\ Acked(j, ANYCAST, b)

\* ==================================================== calls after close
\* The close scenario, in which the application goes on to call on, off
\* and once on an instance whose close() has resolved.
NextAfterClose ==
  \/ NextClose
  \/ \E i \in Inst, fn \in {"h1", "h2"} :
       /\ bus[i] = "closed"
       /\ \/ on(i, "e", fn)
          \/ off(i, "e", fn)
          \/ once(i, "e", fn)

SpecAfterClose == InitClose /\ [][NextAfterClose]_vars /\ AnycastFairness

\* C14: in no step taken after close() of an instance has resolved does the
\* subscriber table of that instance change, and no record emitted by it
\* is appended to the store.
C14_RefusesAfterClose ==
  [][\A i \in Inst :
       bus[i] = "closed" =>
         /\ handlers'[i] = handlers[i]
         /\ wrapped'[i] = wrapped[i]
         /\ \A id \in DOMAIN published' \ DOMAIN published :
              published'[id].by # i]_vars

\* ============================================================== routing
\* The message objects the application passes to emit: target absent, the
\* empty string, the emitter's own id, another instance's id or an id
\* nobody owns; mode absent or one of the three modes.
MessageOf(target, mode) ==
  [k \in {"data"} \cup (IF target = Undefined THEN {} ELSE {"target"})
                  \cup (IF mode = Undefined THEN {} ELSE {"mode"}) |->
     CASE k = "data" -> "d"
       [] k = "target" -> target
       [] k = "mode" -> mode]

RoutingMessages ==
  {MessageOf(target, mode) :
     target \in {Undefined, ""} \cup Targets, mode \in {Undefined} \cup EventMode}

\* every instance is initialized; instance 1 emits "e" with each message
InitRouting ==
  Started([i \in Inst |-> "both"], [i \in Inst |-> SubscribedTable],
          [i \in Inst |-> 0])

NextRouting ==
  \E message \in RoutingMessages : emit(1, "e", message)

SpecRouting == InitRouting /\ [][NextRouting]_vars

\* the positions of the store that hold the entry with the given id
Positions(id) ==
  {p \in (DOMAIN redis) \X (1..MaxRecords) :
     /\ p[2] <= Len(redis[p[1]].entries)
     /\ redis[p[1]].entries[p[2]].id = id}

\* the envelope stored under the given id
Stored(id) ==
  LET p == CHOOSE q \in Positions(id) : TRUE
  IN EJSON_parse(redis[p[1]].entries[p[2]].value)

\* the message of record id carries a non-empty target
TargetSet(id) == Truthy(Get(published[id].message, "target"))
TargetAbsent(id) == "target" \notin DOMAIN published[id].message

\* C15: every emit has appended exactly one entry, under exactly one key;
\* that key is P+"unicast:"+target when the message carries a (non-empty)
\* target, whatever mode it carries, and the stored mode is then UNICAST;
\* P+"broadcast" when it carries neither target nor mode; P+"anycast" when
\* it carries mode ANYCAST and no target. Targets are the emitter's own
\* id, another instance's id and an id that no instance owns.
C15_PublishRouting ==
  \A id \in RecordIds :
    IsPublished(id) =>
      LET message == published[id].message
          P == keyPrefix(published[id].by)
      IN /\ Cardinality(Positions(id)) = 1
         /\ TargetSet(id) =>
              /\ Positions(id) \subseteq
                   {<<P \o "unicast:" \o message.target, n>> : n \in 1..MaxRecords}
              /\ Get(Stored(id), "mode") = UNICAST
         /\ (TargetAbsent(id) /\ "mode" \notin DOMAIN message) =>
              Positions(id) \subseteq
                {<<P \o "broadcast", n>> : n \in 1..MaxRecords}
         /\ (TargetAbsent(id) /\ Get(message, "mode") = ANYCAST) =>
              Positions(id) \subseteq
                {<<P \o "anycast", n>> : n \in 1..MaxRecords}

\* instance 1 has emitted to an id nobody owns, with mode ANYCAST next to
\* the target, and to its own id: both records are in the store, each
\* under the unicast key of its target
C15_Witness ==
  \E a, b \in RecordIds :
    /\ IsPublished(a) /\ IsPublished(b)
    /\ published[a].message = MessageOf(UnknownId, ANYCAST)
    /\ published[b].message = MessageOf(instanceId(1), Undefined)
    /\ \E n \in 1..MaxRecords :
         Positions(a) = {<<keyPrefixOf("default") \o "unicast:" \o UnknownId, n>>}
    /\ \E n \in 1..MaxRecords :
         Positions(b) = {<<getStreamKey(1, UNICAST), n>>}

\* C16: every stored envelope has a target field if and only if its mode
\* is UNICAST.
C16_TargetIffUnicast ==
  \A id \in RecordIds :
    IsPublished(id) =>
      (("target" \in DOMAIN Stored(id)) <=> (Get(Stored(id), "mode") = UNICAST))

\* =========================================================== namespaces
\* Two buses on one server: instance 2 is constructed with the name
\* "a:unicast", the others with the name "a". All subscribe h1 to "e" and
\* call init(); instance 1 emits "e" to instance ids and to other strings
\* as target, and with a mode.
BusName(i) == IF i = 2 THEN "a:unicast" ELSE "a"

NamespaceMessages ==
  {MessageOf(target, Undefined) : target \in {instanceId(2), "anycast"}}
    \cup {MessageOf(Undefined, ANYCAST), MessageOf(Undefined, Undefined)}

InitNamespace ==
  /\ redis = <<>>
  /\ nextId = 1
  /\ options = [i \in Inst |-> [name |-> nameOf(BusName(i)), onlyNew |-> FALSE,
                                role |-> "both",
                                streamTTL |-> streamTTLOf(<<>>),
                                maxMessageCount |-> maxMessageCountOf(<<>>)]]
  /\ bus = [i \in Inst |-> "new"]
  /\ handlers = [i \in Inst |-> SubscribedTable]
  /\ stream = [i \in Inst |-> [m \in EventMode |-> NewStream]]
  /\ wrapped = [i \in Inst |-> 0]
  /\ published = <<>>
  /\ dispatched = EmptyBag
  /\ invoked = EmptyBag
  /\ acked = EmptyBag
  /\ maint = [i \in Inst |-> NoMaintenance]

NextNamespace ==
  \/ Run
  \/ \E message \in NamespaceMessages : emit(1, "e", message)

SpecNamespace ==
  InitNamespace /\ [][NextNamespace]_vars /\ InitFairness /\ Fairness

\* the stream keys the readers of instance i read
StreamKeys(i) == {getStreamKey(i, m) : m \in EventMode}

\* C17: the instances of two buses with distinct names read disjoint sets
\* of stream keys, no record emitted on one bus is stored under a key that
\* an instance of the other bus reads, and no instance of the other bus
\* reads or dispatches it.
C17_NamespaceIsolation ==
  \A i, j \in Inst :
    options[i].name # options[j].name =>
      /\ StreamKeys(i) \cap StreamKeys(j) = {}
      /\ \A id \in RecordIds :
           (IsPublished(id) /\ published[id].by = i) =>
             /\ published[id].key \notin StreamKeys(j)
             /\ ~Holds(j, id)
             /\ Dispatches(j, id) = 0

\* ============================================================== crashes
\* Every instance has subscribed h1 to "e" and is initialized; instance 2
\* emits anycasts of "e". The process of instance 1 dies at any time;
\* the maintenance of the others then finds its consumer idle.
InitCrash ==
  Started([i \in Inst |-> "both"], [i \in Inst |-> SubscribedTable],
          [i \in Inst |-> 0])

NextCrash ==
  \/ Loops
  \/ crash(1)
  \/ \E i \in Inst, consumer \in {instanceId(j) : j \in Inst} :
       maintainOnce_delconsumer(i, ANYCAST, consumer)
  \/ emit(2, "e", [mode |-> ANYCAST, data |-> "d"])

SpecCrash == InitCrash /\ [][NextCrash]_vars /\ AnycastFairness

\* the instances whose process is running and initialized
Live == {j \in Inst : bus[j] = "ready"}

\* C18: while an instance is live, again and again a state is reached in
\* which every anycast record in the store has been acknowledged by the
\* instance that read it or, when that instance has crashed before its
\* XACK, has been dispatched to the handler of a live instance.
C18_AtLeastOnce ==
  []<>(\A id \in RecordIds :
         (IsAnycast(id) /\ Live # {}) =>
           \/ \E j \in Inst : Acked(j, ANYCAST, id)
           \/ \E j \in Live : Count(invoked, <<j, id, Handler("h1", 0)>>) > 0)

\* ===================================================== subscriber table
\* Every instance is initialized with an empty table. The application
\* calls on, off and once on instance 1 in any order, then instance 1
\* emits "e" to itself and dispatches the records with the table the
\* calls have left, while the application goes on calling on.
InitTable ==
  Started([i \in Inst |-> "both"], [i \in Inst |-> NoTable],
          [i \in Inst |-> 0])

NextTable ==
  \/ Loops
  \/ emit(1, "e", [target |-> instanceId(1), data |-> "d"])
  \/ \E fn \in {"h1", "h2"} : on(1, "e", fn)
  \/ \E fn \in {"h1", "h2"} : nextId = 1 /\ off(1, "e", fn)
  \/ nextId = 1 /\ once(1, "e", "h1")

SpecTable == InitTable /\ [][NextTable]_vars

\* the map topic -> set of handlers that a table stands for
TableMap(table) == [type \in DOMAIN table |-> SetMembers(table[type])]

\* insertion into and removal from a map topic -> set of handlers
MapInsert(map, type, h) ==
  [k \in DOMAIN map \cup {type} |->
     IF k # type THEN map[k]
     ELSE IF type \in DOMAIN map THEN map[type] \cup {h} ELSE {h}]
MapRemove(map, type, h) ==
  IF type \notin DOMAIN map THEN map
  ELSE IF map[type] \ {h} = {} THEN [k \in DOMAIN map \ {type} |-> map[k]]
       ELSE [map EXCEPT ![type] = @ \ {h}]

\* every topic of the table has a handler, and no handler is held twice
NoEmptyNoTwice(table) ==
  \A type \in DOMAIN table :
    /\ SetSize(table[type]) > 0
    /\ \A n, k \in 1..Len(table[type]) :
         (n # k /\ table[type][n] # Empty) => table[type][n] # table[type][k]

\* the handlers the application passes: functions and wrappers of once
TableHandlers ==
  {Handler(fn, 0) : fn \in {"h1", "h2"}}
    \cup {Handler("h1", w) : w \in 1..(MaxOnce + 1)}

InitTransport ==
  Started([i \in Inst |-> "both"], [i \in Inst |-> SubscribedTable],
          [i \in Inst |-> 0])

NextTransport ==
  \/ Loops
  \/ FLUSHALL
  \/ emit(2, "e", [mode |-> ANYCAST, data |-> "d"])
  \/ close(1)
  \/ \E i \in Inst :
       \/ close_streams(i)
       \/ close_resolve(i)
       \/ close_reject(i)
       \/ \E m \in EventMode : EventStream_close(i, m)

SpecTransport == InitTransport /\ [][NextTransport]_vars

\* C20: the reader loops of an initialized instance never terminate before
\* close() is called, whatever XREADGROUP returns, and a close() that was
\* called is never rejected.
C20_LoopsSurviveErrors ==
  \A i \in Inst :
    /\ bus[i] = "ready" =>
         \A m \in EventMode :
           stream[i][m].pc \in {"read", "batch", "await", "ack"}
    /\ \A m \in EventMode : stream[i][m].pc # "dead"
    /\ bus[i] # "failed"

\* ==================================================== per-stream ordering
\* Every instance has subscribed h1 to "e" and is initialized; instance 1
\* emits "e" in each of the three modes, the unicasts to itself.
OrderMessages ==
  {[mode |-> ANYCAST, data |-> "d"], [mode |-> BROADCAST, data |-> "d"],
   [target |-> instanceId(1), data |-> "d"]}

InitOrder ==
  Started([i \in Inst |-> "both"], [i \in Inst |-> SubscribedTable],
          [i \in Inst |-> 0])

NextOrder ==
  \/ Loops
  \/ \E message \in OrderMessages : emit(1, "e", message)

SpecOrder == InitOrder /\ [][NextOrder]_vars

\* the records the reader of mode m of instance i has handed to
\* handleMessage
DispatchedOn(i, m) == {id \in RecordIds : Count(dispatched, <<i, m, id>>) > 0}

\* the reader of mode m of instance i hands record id to handleMessage in
\* this step
DispatchStep(i, m, id) ==
  Count(dispatched', <<i, m, id>>) > Count(dispatched, <<i, m, id>>)

\* C28: whenever a reader hands a record to handleMessage, every record the
\* same reader handed over before has a smaller id, its handlers have all
\* settled and it has been acknowledged; and a reader that awaits a handler
\* holds the one record it is dispatching.
C28_PerStreamOrder ==
  /\ [][\A i \in Inst, m \in EventMode, id \in RecordIds :
          DispatchStep(i, m, id) =>
            /\ stream[i][m].pc = "batch"
            /\ \A a \in DispatchedOn(i, m) : a < id /\ Acked(i, m, a)]_vars
  /\ [](\A i \in Inst, m \in EventMode :
          stream[i][m].pc = "await" =>
            /\ stream[i][m].batch # <<>>
            /\ \A a \in DispatchedOn(i, m) :
                 a # stream[i][m].batch[1].id => Acked(i, m, a))

\* a reader has dispatched and acknowledged record a and is awaiting the
\* handler of a later record b of the same stream
C28_Witness ==
  \E i \in Inst, m \in EventMode, a, b \in RecordIds :
    /\ a < b
    /\ Acked(i, m, a) /\ Count(invoked, <<i, a, Handler("h1", 0)>>) = 1
    /\ stream[i][m].pc = "await" /\ stream[i][m].batch[1].id = b

\* ================================================== independent readers
\* Every instance has subscribed h1 to "e" and is initialized; instance 1
\* has also subscribed h2 to "f", and in this scenario h2 returns a promise
\* that never settles. Instance 1 emits one record of "f" and then records
\* of "e" in the two other modes, the unicasts to itself, at most one
\* unicast of "e".
StallTable ==
  [i \in Inst |->
     IF i = 1 THEN on_table(SubscribedTable, "f", Handler("h2", 0))
     ELSE SubscribedTable]

InitStall ==
  Started([i \in Inst |-> "both"], StallTable, [i \in Inst |-> 0])

\* the reader of mode m of instance i awaits the handler that never settles
Stalled(i, m) == stream[i][m].pc = "await" /\ stream[i][m].cur.fn = "h2"

\* a handler other than h2 settles
Settles(i, m) == ~Stalled(i, m) /\ handleMessage_resume(i, m)

\* a unicast of "e" is in the store
UnicastSent ==
  \E id \in RecordIds :
    IsPublished(id) /\ published[id].event = "e" /\ HasTarget(id)

NextStall ==
  \/ \E i \in Inst, m \in EventMode :
       \/ startLoop_xreadgroup(i, m)
       \/ startLoop_dispatch(i, m)
       \/ Settles(i, m)
       \/ startLoop_xack(i, m)
  \/ \E message \in OrderMessages : nextId = 1 /\ emit(1, "f", message)
  \/ \E message \in OrderMessages :
       /\ nextId > 1
       /\ emit_mode(message) # emit_mode(published[1].message)
       /\ "target" \in DOMAIN message => ~UnicastSent
       /\ emit(1, "e", message)

\* the event loop of instance 1 runs its continuations, and its handlers
\* other than h2 settle
StallFairness ==
  \A m \in EventMode :
    /\ WF_vars(startLoop_xreadgroup(1, m))
    /\ WF_vars(startLoop_dispatch(1, m))
    /\ WF_vars(Settles(1, m))
    /\ WF_vars(startLoop_xack(1, m))

SpecStall == InitStall /\ [][NextStall]_vars /\ StallFairness

\* record id of topic "e" has been dispatched to h1 and acknowledged by the
\* reader of mode m of instance i
Handled(i, m, id) ==
  /\ Count(dispatched, <<i, m, id>>) = 1
  /\ Count(invoked, <<i, id, Handler("h1", 0)>>) = 1
  /\ Acked(i, m, id)

\* the anycast record id went to the reader of another instance
ReadByPeer(i, id) ==
  \E j \in Inst \ {i} :
    \/ id \in Pending(redis, getStreamKey(j, ANYCAST), getGroupKey(j, ANYCAST),
                      instanceId(j))
    \/ Acked(j, ANYCAST, id)

\* C29: while a reader of an instance awaits a handler that never settles,
\* emit on that instance is still possible, and again and again a state is
\* reached in which every record of "e" has been dispatched and
\* acknowledged by each reader of the instance that it is for and that is
\* not itself awaiting such a handler: a broadcast by its broadcast reader,
\* a unicast to it by its unicast reader, an anycast that no peer has read
\* by its anycast reader.
C29_IndependentReaders ==
  /\ [](\A i \in Inst :
          (nextId <= MaxRecords /\ \E m \in EventMode : Stalled(i, m)) =>
            \A message \in OrderMessages : ENABLED emit(i, "e", message))
  /\ []<>(\A id \in RecordIds :
            (IsPublished(id) /\ published[id].event = "e") =>
              /\ IsBroadcast(id) =>
                   Stalled(1, BROADCAST) \/ Handled(1, BROADCAST, id)
              /\ HasTarget(id) =>
                   Stalled(1, UNICAST) \/ Handled(1, UNICAST, id)
              /\ IsAnycast(id) =>
                   \/ Stalled(1, ANYCAST) \/ Handled(1, ANYCAST, id)
                   \/ ReadByPeer(1, id))

\* the reader of one stream of instance 1 awaits h2 for record a, and a
\* record b of "e" appended later has been handled by another of its readers
C29_Witness ==
  \E a, b \in RecordIds, m, n \in EventMode :
    /\ a < b /\ m # n /\ IsPublished(b)
    /\ Stalled(1, m) /\ stream[1][m].batch[1].id = a
    /\ published[b].event = "e" /\ Handled(1, n, b)

\* ================================================== no anycast hoarding
\* the anycast records instance i has read and not acknowledged
AnycastPending(i) ==
  Pending(redis, getStreamKey(i, ANYCAST), getGroupKey(i, ANYCAST),
          instanceId(i))

\* C30: in every state every initialized instance has at most one anycast
\* record that it has read and not acknowledged, and its anycast reader
\* holds no record besides that one.
C30_NoAnycastHoarding ==
  \A i \in Inst :
    bus[i] = "ready" =>
      /\ Cardinality(AnycastPending(i)) <= 1
      /\ Len(stream[i][ANYCAST].batch) <= 1
      /\ \A n \in 1..Len(stream[i][ANYCAST].batch) :
           stream[i][ANYCAST].batch[n].id \in AnycastPending(i)

\* instance 1 is awaiting the handler of an anycast record while a later
\* record, which it has not taken, has been read by a peer
C30_Witness ==
  \E a, b \in RecordIds, j \in Inst \ {1} :
    /\ a < b
    /\ stream[1][ANYCAST].pc = "await"
    /\ AnycastPending(1) = {a}
    /\ b \in AnycastPending(j) \/ Acked(j, ANYCAST, b)

\* =================================================== unknown unicast target
\* Every instance is initialized and maintains its streams while time
\* passes; instance 1 emits unicast records, to an id that no instance
\* owns and to its peer. The readers that run are those of the unicast
\* streams. The owner of every group is alive, so that no existence check
\* goes past its first reply.
UnknownMessages == {[target |-> UnknownId]}

InitUnknown ==
  Started([i \in Inst |-> "both"], [i \in Inst |-> SubscribedTable],
          [i \in Inst |-> 0])

UnicastLoops ==
  \E i \in Inst :
    \/ startLoop_xreadgroup(i, UNICAST)
    \/ startLoop_dispatch(i, UNICAST)
    \/ handleMessage_resume(i, UNICAST)
    \/ startLoop_xack(i, UNICAST)

NextUnknown ==
  \/ UnicastLoops
  \/ Runs
  \/ Prunes
  \/ Advance(NextDue)
  \/ \E message \in UnknownMessages : emit(1, "e", message)
  \/ emit(1, "e", [target |-> instanceId(2)])

UnknownFairness ==
  /\ \A i \in Inst :
       /\ WF_vars(startLoop_xreadgroup(i, UNICAST))
       /\ WF_vars(startLoop_dispatch(i, UNICAST))
       /\ WF_vars(handleMessage_resume(i, UNICAST))
       /\ WF_vars(startLoop_xack(i, UNICAST))
       /\ MaintenanceFairness(i)
  /\ WF_vars(Advance(NextDue))

SpecUnknown == InitUnknown /\ [][NextUnknown]_vars /\ UnknownFairness

\* the stream an emit to the unknown id appends to
UnknownKey == StreamKeyOf(keyPrefixOf("default"), UnknownId, UNICAST)

\* the records emitted to the unknown id
ToUnknown(id) ==
  /\ IsPublished(id)
  /\ Get(published[id].message, "target") = UnknownId

\* C24: an emit whose target is an id that no instance owns succeeds and
\* returns a record id (the record is appended to the unicast stream of
\* that id), the record is never dispatched to a handler of any instance,
\* and the stream key the XADD created eventually expires with its records.
C24_UnknownTargetExpires ==
  /\ [](\A id \in RecordIds :
          ToUnknown(id) =>
            /\ published[id].key = UnknownKey
            /\ \A i \in Inst : Dispatches(i, id) = 0)
  /\ [](ENABLED (\E message \in UnknownMessages : emit(1, "e", message))
          \/ nextId > MaxRecords)
  /\ (KeyExists(redis, UnknownKey) ~> ~KeyExists(redis, UnknownKey))

\* ============================================ collection of dead groups
\* the store after a run of maintainOnce of every instance has given each
\* stream key the time to live ttl
RECURSIVE RenewedKeys(_, _, _)
RenewedKeys(store, keys, ttl) ==
  IF keys = {} THEN store
  ELSE LET k == CHOOSE x \in keys : TRUE
       IN RenewedKeys(EXPIRE(store, k, ttl), keys \ {k}, ttl)

Renewed(store, ttl) == RenewedKeys(store, DOMAIN store, ttl)

\* The state after every instance was constructed with the options opts
\* (streamTTL, when it is configured) and registered the handlers of
\* `table`, and the instances 1..n have resolved `await init()` and
\* completed their first run of maintainOnce.
StartedWith(n, opts, table) ==
  /\ redis = Renewed(StoreAfterInit(n, "default", FALSE), streamTTLOf(opts))
  /\ nextId = 1
  /\ options = [i \in Inst |-> [name |-> "default", onlyNew |-> FALSE,
                                role |-> "both",
                                streamTTL |-> streamTTLOf(opts),
                                maxMessageCount |-> maxMessageCountOf(opts)]]
  /\ bus = [i \in Inst |-> IF i <= n THEN "ready" ELSE "new"]
  /\ handlers = table
  /\ stream = [i \in Inst |-> [m \in EventMode |->
                 IF i <= n THEN [NewStream EXCEPT !.pc = "read", !.loop = TRUE]
                 ELSE NewStream]]
  /\ wrapped = [i \in Inst |-> 0]
  /\ published = <<>>
  /\ dispatched = EmptyBag
  /\ invoked = EmptyBag
  /\ acked = EmptyBag
  /\ maint = [i \in Inst |-> IF i <= n THEN Waiting ELSE NoMaintenance]

\* Every instance is initialized with streamTTL 300. The process of
\* instance 1 dies; its peers keep running maintenance while time passes,
\* and instance 2 emits unicast records addressed to instance 1.
InitCollect ==
  StartedWith(NumInst, [streamTTL |-> 5 * 60],
              [i \in Inst |-> SubscribedTable])

NextCollect ==
  \/ crash(1)
  \/ Runs
  \/ Prunes
  \/ Collects
  \/ Advance(NextDue)
  \/ emit(2, "e", [target |-> instanceId(1)])

CollectFairness ==
  /\ \A i \in Inst : MaintenanceFairness(i)
  /\ WF_vars(Advance(NextDue))

SpecCollect == InitCollect /\ [][NextCollect]_vars /\ CollectFairness

\* the broadcast group of instance i exists
HasBroadcastGroup(i) ==
  /\ KeyExists(redis, getStreamKey(i, BROADCAST))
  /\ getGroupKey(i, BROADCAST) \in XINFO_GROUPS(redis, getStreamKey(i, BROADCAST))

\* C23: if an instance I stops renewing (its process has died) and at
\* least one peer of the same bus keeps running maintenance, then
\* eventually the key P+"unicast:"+I no longer exists and the broadcast
\* group P+I is destroyed, whatever the other instances do in the
\* meantime, including emitting unicast records addressed to I.
C23_DeadGroupCollected ==
  \A i \in Inst :
    <>(bus[i] = "crashed") =>
      /\ <>(bus[i] = "crashed" /\ ~KeyExists(redis, getStreamKey(i, UNICAST)))
      /\ <>(bus[i] = "crashed" /\ ~HasBroadcastGroup(i))

\* ============================================ collection and joining peers
\* All instances but the last are initialized and run maintenance while
\* time passes; the last calls init() at any time, and its three
\* EventStream.init(), each on a connection of its own, take their steps
\* in any order and at any time.
InitJoin ==
  StartedFirst(NumInst - 1, FALSE, [i \in Inst |-> SubscribedTable])

NextJoin ==
  \/ \E i \in Inst : init(i)
  \/ \E i \in Inst, m \in EventMode : EventStream_init(i, m)
  \/ \E i \in Inst : init_resolve(i)
  \/ Runs
  \/ Collects
  \/ Advance(NextDue)

SpecJoin == InitJoin /\ [][NextJoin]_vars

\* the instances whose init has started or completed and that have
\* neither closed nor crashed
Alive == {i \in Inst : bus[i] \in {"init", "ready"}}

\* C22: a peer's maintenance never destroys the broadcast consumer group
\* P+I of an instance I that is live (its init has started or completed and
\* it has neither closed nor crashed), in any interleaving of the steps of
\* I's init with the peer's two existence probes of P+"unicast:"+I taken 2
\* seconds apart: in no step does the group of a live instance leave a
\* broadcast stream that stays.
C22_LiveGroupSurvives ==
  [][\A i \in Alive :
       (HasBroadcastGroup(i) /\ KeyExists(redis', getStreamKey(i, BROADCAST)))
         => HasBroadcastGroup(i)']_vars

\* ================================================== failing maintenance
\* Every instance is initialized with streamTTL 300 and runs maintenance
\* while time passes. One command of one run fails, on any instance, at
\* any stream and for any of the commands.
InitFailing ==
  StartedWith(NumInst, [streamTTL |-> 5 * 60],
              [i \in Inst |-> SubscribedTable])

NextFailing ==
  \/ Runs
  \/ Advance(NextDue)
  \/ \E i \in Inst :
       /\ Alone(i)
       /\ \A j \in Inst : ~maint[j].rejected
       /\ maintainOnce_fail(i)
  \/ \E i \in Inst : unhandledRejection(i)

FailingFairness ==
  /\ \A i \in Inst : MaintenanceFairness(i)
  /\ WF_vars(Advance(NextDue))

SpecFailing == InitFailing /\ [][NextFailing]_vars /\ FailingFairness

\* the three streams of instance i have just been renewed
JustRenewed(i) ==
  \A m \in EventMode :
    /\ KeyExists(redis, getStreamKey(i, m))
    /\ redis[getStreamKey(i, m)].ttl = options[i].streamTTL

\* C21: a failing store operation inside a maintenance tick (XTRIM,
\* EXPIRE, XINFO or XGROUP on any of the three streams) does not propagate
\* out of the tick (no promise of the worker rejects unhandled), does not
\* stop the periodic timer, and the following ticks again trim and renew
\* the TTL of all three streams of the instance.
C21_MaintenanceErrorsSwallowed ==
  /\ [](\A i \in Inst : ~maint[i].rejected)
  /\ [](\A i \in Inst : maint[i].timer # NoTimer)
  /\ \A i \in Inst : []<>JustRenewed(i)

\* ====================================================== idle consumers
\* Every instance is initialized with streamTTL 300, has subscribed h1 to
\* "e" and runs maintenance while time passes; instance 1 emits anycasts
\* of "e", whose handlers take any time to settle.
InitIdle ==
  StartedWith(NumInst, [streamTTL |-> 5 * 60],
              [i \in Inst |-> SubscribedTable])

NextIdle ==
  \/ Loops
  \/ Runs
  \/ Prunes
  \/ Advance(NextDue)
  \/ emit(1, "e", [mode |-> ANYCAST, data |-> "d"])

SpecIdle == InitIdle /\ [][NextIdle]_vars

\* the consumers of the group of reader m of instance i, with the seconds
\* each has been idle
IdleSeconds(i, m) ==
  IF XREADGROUP_fails(redis, getStreamKey(i, m), getGroupKey(i, m)) THEN <<>>
  ELSE redis[getStreamKey(i, m)].groups[getGroupKey(i, m)].idle

\* C25: maintenance issues XGROUP DELCONSUMER for a consumer only if that
\* consumer's idle time exceeds the configured streamTTL, both taken as the
\* same duration (streamTTL is in seconds, at least 300): a consumer that
\* has been idle for no more than streamTTL seconds, for example one whose
\* handler has been running for a few seconds, is never deleted and keeps
\* its pending entries, as long as its group is there and apart from the
\* entries it acknowledges.
C25_IdleThreshold ==
  [][\A i \in Inst, m \in EventMode :
       LET key == getStreamKey(i, m)
           group == getGroupKey(i, m)
       IN \A c \in DOMAIN IdleSeconds(i, m) :
            (/\ options[i].streamTTL >= 5 * 60
             /\ IdleSeconds(i, m)[c] <= options[i].streamTTL
             /\ ~XREADGROUP_fails(redis', key, group))
            => /\ c \in DOMAIN IdleSeconds(i, m)'
               /\ acked' = acked =>
                    Pending(redis, key, group, c) \subseteq
                      Pending(redis', key, group, c)]_vars

\* ================================================ close and maintenance
\* Every instance is initialized with streamTTL 300 and runs maintenance
\* while time passes; instance 1 calls close() at any time, between two
\* runs or in the middle of one.
InitCancel ==
  StartedWith(NumInst, [streamTTL |-> 5 * 60],
              [i \in Inst |-> SubscribedTable])

NextCancel ==
  \/ \E i \in Inst, m \in EventMode : startLoop_xreadgroup(i, m)
  \/ close(1)
  \/ close_streams(1)
  \/ \E m \in EventMode : EventStream_close(1, m)
  \/ close_resolve(1)
  \/ Runs
  \/ Prunes
  \/ Collects
  \/ \E i \in Inst : maintainOnce_reject(i)
  \/ \E i \in Inst : \E p \in maint[i].probes : probe_reject(i, p)
  \/ Advance(NextDue)

SpecCancel == InitCancel /\ [][NextCancel]_vars

\* a run of maintainOnce starts on instance i
TickStarts(i) == maint[i].pc = "idle" /\ maint'[i].pc # "idle"

\* the store executes a command of the worker of instance i
Maintains(i) ==
  \/ maintainOnce_xtrim(i)
  \/ maintainOnce_expire(i)
  \/ maintainOnce_xinfo(i)
  \/ maintainOnce_xgroup(i)
  \/ maintainOnce_groups(i)
  \/ \E p \in maint[i].probes : probe_exists(i, p) \/ probe_destroy(i, p)

\* C27: once close() has been called no new maintenance tick starts on
\* that instance, and once it has resolved the instance executes no store
\* operation that maintenance scheduled earlier, including the second
\* existence probe delayed by 2 seconds and the XGROUP DESTROY that
\* follows it.
C27_CloseCancelsMaintenance ==
  [][\A i \in Inst :
       /\ bus[i] \in {"closing", "stopping", "closed", "failed"}
            => ~TickStarts(i)
       /\ bus[i] \in {"closed", "failed"} => ~Maintains(i)]_vars

\* ======================================================= stream renewal
\* the values of streamTTL the application configures; <<>>: none
Configurations ==
  {<<>>} \cup {[streamTTL |-> v] : v \in {0, 20, 5 * 60 - 1, 5 * 60}}

\* All instances but the last are initialized and run maintenance while
\* time passes; the last calls init() at any time. All are constructed
\* with the same configuration. An init() is over before the 60 seconds of
\* the first stream it has created are.
InitRenewal ==
  \E opts \in Configurations :
    StartedWith(NumInst - 1, opts, [i \in Inst |-> <<>>])

\* the streams an instance has created in its init so far outlive d seconds
InitInTime(d) ==
  \A i \in Inst, m \in EventMode :
    (bus[i] = "init" /\ stream[i][m].pc # "off") =>
      /\ KeyExists(redis, getStreamKey(i, m))
      /\ redis[getStreamKey(i, m)].ttl > d

NextRenewal ==
  \/ \E i \in Inst : init(i)
  \/ \E i \in Inst, m \in EventMode : EventStream_init(i, m)
  \/ \E i \in Inst : init_resolve(i)
  \/ Runs
  \/ Collects
  \/ InitInTime(NextDue) /\ Advance(NextDue)

SpecRenewal == InitRenewal /\ [][NextRenewal]_vars

\* C26: while an instance is initialized and not closed and its store
\* operations succeed (no command of its worker has been rejected), each
\* of its three stream keys exists in every reachable state, for every
\* configured streamTTL including 0 and values below 300, and the time to
\* live its maintenance gives them is max(configured value, 300), 3600 by
\* default.
C26_StreamsNeverVanish ==
  \A i \in Inst :
    /\ options[i].streamTTL >= 5 * 60
    /\ (bus[i] = "ready" /\ ~maint[i].rejected) =>
         \A m \in EventMode :
           /\ KeyExists(redis, getStreamKey(i, m))
           /\ redis[getStreamKey(i, m)].ttl <= options[i].streamTTL

\* every instance is initialized with an effective streamTTL of 300 and
\* instance 1, whose interval is due, finds its three streams with the 270
\* seconds the last run has left them
C26_Witness ==
  /\ \A i \in Inst : bus[i] = "ready" /\ ~maint[i].rejected
  /\ options[1].streamTTL = 5 * 60
  /\ maint[1].timer = 0
  /\ \A m \in EventMode :
       /\ KeyExists(redis, getStreamKey(1, m))
       /\ redis[getStreamKey(1, m)].ttl >= 5 * 60 - Period

\* ====================================================== concurrent init
\* Every instance is constructed against an empty store, each with an
\* onlyNew of its own, and calls init() at any time; the three
\* EventStream.init() of each, on connections of their own, take their
\* steps in any order and at any time. Instance 1 emits anycasts once its
\* init has begun and before the first group exists, the anycast readers
\* deliver them, and an instance whose init has resolved runs maintenance
\* while time passes. An init() is over
\* before the 60 seconds of the first stream it has created are.
InitConcurrent ==
  \E onlyNew \in [Inst -> BOOLEAN] :
    Constructed(onlyNew, [i \in Inst |-> "both"], [i \in Inst |-> <<>>])

\* no EventStream.init() has created its group yet
NoReader == \A i \in Inst, m \in EventMode : stream[i][m].pc = "off"

AnycastLoops ==
  \E i \in Inst :
    \/ startLoop_xreadgroup(i, ANYCAST)
    \/ startLoop_dispatch(i, ANYCAST)
    \/ startLoop_xack(i, ANYCAST)

NextConcurrent ==
  \/ \E i \in Inst : init(i)
  \/ \E i \in Inst, m \in EventMode : EventStream_init(i, m)
  \/ \E i \in Inst : init_resolve(i)
  \/ NoReader /\ nextId < MaxRecords
       /\ emit(1, "e", [mode |-> ANYCAST, data |-> "d"])
  \/ AnycastLoops
  \/ Runs
  \/ Collects
  \/ InitInTime(NextDue) /\ Advance(NextDue)

\* the event loop of a process runs the continuation of every await of
\* init()
ConcurrentFairness ==
  \A i \in Inst :
    /\ \A m \in EventMode : WF_vars(EventStream_init(i, m))
    /\ WF_vars(init_resolve(i))

SpecConcurrent ==
  InitConcurrent /\ [][NextConcurrent]_vars /\ ConcurrentFairness

\* the consumer groups of a stream, none when the key is missing
GroupsOf(store, key) ==
  IF KeyExists(store, key) THEN XINFO_GROUPS(store, key) ELSE {}

\* the instances whose init() has resolved
Initialized == {i \in Inst : bus[i] = "ready"}

\* the groups the streams of the initialized instances have to have
GroupsInPlace ==
  /\ \A i \in Initialized :
       /\ GroupsOf(redis, getStreamKey(i, ANYCAST))
            = {getGroupKey(i, ANYCAST)}
       /\ getGroupKey(i, BROADCAST)
            \in GroupsOf(redis, getStreamKey(i, BROADCAST))
       /\ GroupsOf(redis, getStreamKey(i, UNICAST))
            = {getGroupKey(i, UNICAST)}
  /\ \A i \in Inst :
       GroupsOf(redis, getStreamKey(i, BROADCAST))
         \subseteq {getGroupKey(j, BROADCAST) : j \in Inst \ {k \in Inst : bus[k] = "new"}}

\* the anycast group stays, a step delivers (XREADGROUP puts in the pending
\* entries list) only entries after its last-delivered id, and that id
\* moves only forward and only to an entry the step has delivered: no
\* XGROUP CREATE sets it
PositionKept ==
  \A i \in Inst :
    LET key == getStreamKey(i, ANYCAST)
        group == getGroupKey(i, ANYCAST)
    IN (group \in GroupsOf(redis, key) /\ KeyExists(redis', key)) =>
         /\ group \in GroupsOf(redis', key)
         /\ LET old == redis[key].groups[group]
                new == redis'[key].groups[group]
            IN /\ \A p \in new.pel \ old.pel : p[1] > old.last
               /\ new.last # old.last =>
                    /\ new.last > old.last
                    /\ \E p \in new.pel \ old.pel : p[1] = new.last

\* C31: group creation is idempotent under concurrent init: for the
\* instances of one bus running init in any interleaving, every init
\* completes, and afterwards the anycast stream has exactly the one group
\* P+"group", whose read position no later creator has reset, the broadcast
\* stream has exactly one group P+I per instance I whose init has run, and
\* each unicast stream P+"unicast:"+I has exactly the group P+I.
C31_IdempotentGroupCreation ==
  /\ []GroupsInPlace
  /\ [][PositionKept]_vars
  /\ \A i \in Inst : (bus[i] = "init") ~> (bus[i] = "ready")
====
